---- MODULE Spec2Model ----
(***************************************************************************)
(* Parallel Jacobi solver of the Laplace equation over MPI.                *)
(*   variant "strip" : src/src/laplace_1D.c (row decomposition)            *)
(*   variant "block" : src/src/laplace_2D.c (square block decomposition)   *)
(*                                                                         *)
(* Each MPI process is a worker with a program position pc[w].  Tiles are  *)
(* flat buffers indexed from 0, addressed exactly as the C pointer         *)
(* arithmetic does.  Cell values are C floats and the error sums are C     *)
(* doubles, kept as sign, mantissa and exponent; every operation on them   *)
(* rounds as the machine does (to nearest, ties to even; float expressions *)
(* are evaluated in float).  The arithmetic is on finite numbers: the      *)
(* cells stay between the boundary value and the largest seed.             *)
(***************************************************************************)
EXTENDS Integers, Sequences, FiniteSets, TLC

\* ------------------------------------------------------ program constants
\* significant bits of a float
MantissaBits == 24
\* boundary condition value written by initialize_local_matrix
BoundaryValue == -1
\* rank of the process that gathers the result
root_id == 0

\* ------------------------------------------------------------ C floats
\* A float is <<s, m, e>>: the value (-1)^s * m * 2^e, with m below
\* 2^MantissaBits.  It is normal (m >= 2^(MantissaBits-1)) or has the least
\* exponent MinExp (zero and the denormal numbers).  There are two zeros.
MinExp == -149

FloatTop == 2 ^ MantissaBits

float_zero(s) == <<s, 0, MinExp>>

\* the number of low bits of m, beyond the first k, that a mantissa cannot hold
RECURSIVE ulp_from(_, _)
ulp_from(m, k) == IF m \div (2 ^ k) < FloatTop THEN k ELSE ulp_from(m, k + 1)

\* m / 2^k rounded to the nearest integer, ties to the even one
RoundToStep(m, k) ==
    LET step == 2 ^ k
        q    == m \div step
        r    == m % step
    IN  IF (2 * r > step) \/ (2 * r = step /\ q % 2 = 1) THEN q + 1 ELSE q

\* m * 2^e with m below FloatTop, written with the least exponent possible
RECURSIVE Normal(_, _, _)
Normal(s, m, e) ==
    IF m = 0 THEN float_zero(s)
    ELSE IF (2 * m < FloatTop) /\ (e > MinExp) THEN Normal(s, 2 * m, e - 1)
    ELSE <<s, m, e>>

\* the float nearest to (-1)^s * m * 2^e, for m below 2^28
RoundToFloat(s, m, e) ==
    LET k0 == ulp_from(m, 0)
        k  == IF MinExp - e > 29 THEN 29
              ELSE IF MinExp - e > k0 THEN MinExp - e
              ELSE k0
        q  == RoundToStep(m, k)
    IN  IF q = FloatTop THEN <<s, FloatTop \div 2, e + k + 1>>
        ELSE Normal(s, q, e + k)

\* (float) n
float_of_int(n) == IF n < 0 THEN RoundToFloat(1, 0 - n, 0) ELSE RoundToFloat(0, n, 0)

float_neg(a) == <<1 - a[1], a[2], a[3]>>

\* m / 2^d truncated, its last bit set when bits were lost
Jam(m, d) ==
    LET dd == IF d > 30 THEN 30 ELSE d
        q  == m \div (2 ^ dd)
    IN  IF (m % (2 ^ dd) # 0) /\ (q % 2 = 0) THEN q + 1 ELSE q

\* x + y for two non-zero floats, x with the larger exponent: the sum on
\* three more bits than the mantissa of x, then rounded once
float_add_ordered(x, y) ==
    LET X == 8 * x[2]
        Y == Jam(8 * y[2], x[3] - y[3])
    IN  IF x[1] = y[1] THEN RoundToFloat(x[1], X + Y, x[3] - 3)
        ELSE IF X > Y THEN RoundToFloat(x[1], X - Y, x[3] - 3)
        ELSE IF X < Y THEN RoundToFloat(y[1], Y - X, x[3] - 3)
        ELSE float_zero(0)

\* a + b on floats
float_add(a, b) ==
    IF a[2] = 0 /\ b[2] = 0 THEN float_zero(IF a[1] = b[1] THEN a[1] ELSE 0)
    ELSE IF a[2] = 0 THEN b
    ELSE IF b[2] = 0 THEN a
    ELSE IF a[3] >= b[3] THEN float_add_ordered(a, b)
    ELSE float_add_ordered(b, a)

\* a - b on floats
float_sub(a, b) == float_add(a, float_neg(b))

\* m * 2^e with m >= 2^(MantissaBits-1), whatever the exponent
RECURSIVE Stretch(_, _)
Stretch(m, e) == IF 2 * m < FloatTop THEN Stretch(2 * m, e - 1) ELSE <<m, e>>

\* a * b on floats: the product of the mantissas on two halves of 12 bits,
\* its 27 leading bits kept (the last one set when bits were lost), rounded once
float_mul(a, b) ==
    IF a[2] = 0 \/ b[2] = 0 THEN float_zero((a[1] + b[1]) % 2)
    ELSE LET x  == Stretch(a[2], a[3])
             y  == Stretch(b[2], b[3])
             H  == 2 ^ 12
             c  == ((x[1] \div H) * (y[1] % H)) + ((x[1] % H) * (y[1] \div H))
             lo == ((c % H) * H) + ((x[1] % H) * (y[1] % H))
             hi == ((x[1] \div H) * (y[1] \div H)) + (c \div H) + (lo \div FloatTop)
             g  == (lo % FloatTop) \div (2 ^ 21)
             st == (lo % (2 ^ 21)) # 0
             M  == (8 * hi) + (IF st /\ g % 2 = 0 THEN g + 1 ELSE g)
         IN  RoundToFloat((a[1] + b[1]) % 2, M, x[2] + y[2] + 21)

\* 0.25 * s stored in a float: the product is exact in double
Quarter(s) == RoundToFloat(s[1], 4 * s[2], s[3] - 4)

\* ------------------------------------------------------------ C doubles
\* The error sums are doubles, never negative: <<h, l, e>> is the value
\* (h * DoubleBase + l) * 2^e with l below DoubleBase and, unless the value is
\* zero, 2^24 <= h < 2^25 (53 significant bits).
DoubleBase == 2 ^ 28

double_zero == <<0, 0, 0>>

\* (double) a, for a float a that is not negative
double_of_float(a) ==
    IF a[2] = 0 THEN double_zero
    ELSE LET x == Stretch(a[2], a[3]) IN <<2 * x[1], 0, x[2] - 29>>

\* the two limbs of (h * DoubleBase + l) / 2^d truncated, the last bit set
\* when bits were lost
JamDouble(h, l, d) ==
    LET q == IF d = 0 THEN <<h, l, FALSE>>
             ELSE IF d < 28
             THEN <<h \div (2 ^ d),
                    (l \div (2 ^ d)) + ((h % (2 ^ d)) * (2 ^ (28 - d))),
                    l % (2 ^ d) # 0>>
             ELSE IF d < 56
             THEN <<0, h \div (2 ^ (d - 28)), (h % (2 ^ (d - 28)) # 0) \/ (l # 0)>>
             ELSE <<0, 0, TRUE>>
    IN  <<q[1], IF q[3] /\ q[2] % 2 = 0 THEN q[2] + 1 ELSE q[2]>>

\* x + y for two non-zero doubles, x with the larger exponent: the sum on
\* three more bits than the mantissa of x, then rounded once, ties to even
double_add_ordered(x, y) ==
    LET Xh == (8 * x[1]) + (x[2] \div (2 ^ 25))
        Xl == 8 * (x[2] % (2 ^ 25))
        Y  == JamDouble((8 * y[1]) + (y[2] \div (2 ^ 25)), 8 * (y[2] % (2 ^ 25)),
                        x[3] - y[3])
        sl == Xl + Y[2]
        Sh == Xh + Y[1] + (sl \div DoubleBase)
        Sl == sl % DoubleBase
        k  == IF Sh >= DoubleBase THEN 4 ELSE 3
        st == 2 ^ k
        Qh == Sh \div st
        Ql == (Sl \div st) + ((Sh % st) * (DoubleBase \div st))
        r  == Sl % st
        up == (2 * r > st) \/ (2 * r = st /\ Ql % 2 = 1)
        Rl == IF up THEN (Ql + 1) % DoubleBase ELSE Ql
        Rh == IF up /\ Ql + 1 = DoubleBase THEN Qh + 1 ELSE Qh
    IN  IF Rh = 2 ^ 25 THEN <<2 ^ 24, 0, x[3] - 3 + k + 1>>
        ELSE <<Rh, Rl, x[3] - 3 + k>>

\* x + y on doubles that are not negative
double_add(x, y) ==
    IF x[1] = 0 THEN y
    ELSE IF y[1] = 0 THEN x
    ELSE IF x[3] >= y[3] THEN double_add_ordered(x, y)
    ELSE double_add_ordered(y, x)

\* x <= y on doubles that are not negative
double_leq(x, y) ==
    IF x[1] = 0 THEN TRUE
    ELSE IF y[1] = 0 THEN FALSE
    ELSE \/ x[3] < y[3]
         \/ x[3] = y[3] /\ x[1] < y[1]
         \/ x[3] = y[3] /\ x[1] = y[1] /\ x[2] <= y[2]

\* BOUNDARY_VALUE as a float
BOUNDARY == float_of_int(BoundaryValue)

VARIABLES
    variant,            \* "strip" (laplace_1D) or "block" (laplace_2D)
    NPROC,              \* MPI_Comm_size
    N,                  \* atoi(argv[1])
    sendMode,           \* how this MPI build completes MPI_Send: "eager" or "sync"
    pc,                 \* pc[w]: program position of worker w
    opi,                \* opi[w]: index of the next operation of the halo exchange
    local_tab,          \* local_tab[w]: the tile of worker w (flat, 0-based)
    iter_count,         \* iter_count[w]
    local_error_sum,    \* local_error_sum[w] of the current iteration
    global_error_sum,   \* global_error_sum[w] as returned by MPI_Allreduce
    chan,               \* point-to-point messages in flight
    nsent,              \* nsent[w]: number of messages worker w has sent so far
    reduceIn,           \* reduceIn[w]: contributions of w to the successive MPI_Allreduce calls
    committed,          \* committed[w][k+1]: the tile of w as committed by sweep k (history)
    gatherIn,           \* gatherIn[w]: contributions of w to the successive MPI_Gather calls
    barrierIn,          \* barrierIn[w]: number of MPI_Barrier calls w has entered after laplace
    recv_matrix,        \* collector: the sub-blocks received so far, by rank (block)
    ordered_matrix,     \* collector: recv_matrix reordered by rank modulo NBCUTS (block)
    final_matrix,       \* collector: the assembled N x N grid
    file                \* the lines written to the result file; <<>> while not written

cfgVars == <<variant, NPROC, N, sendMode>>
loopVars == <<opi, local_tab, iter_count, local_error_sum, global_error_sum,
              nsent, reduceIn, committed>>
asmVars == <<recv_matrix, ordered_matrix, final_matrix, file>>
vars == <<variant, NPROC, N, sendMode, pc, opi, local_tab, iter_count,
          local_error_sum, global_error_sum, chan, nsent, reduceIn, committed,
          gatherIn, barrierIn, recv_matrix, ordered_matrix, final_matrix, file>>

\* ------------------------------------------------------------ run inputs
\* <<variant, NPROC, N>>: the command lines "mpirun -np NPROC ./laplace_xD N"
Configs ==
    { <<"strip", 1, 1>>, <<"strip", 1, 2>>, <<"strip", 2, 2>>, <<"strip", 2, 4>>,
      <<"strip", 3, 3>>, <<"strip", 2, 3>>,
      <<"block", 1, 1>>, <<"block", 1, 2>>, <<"block", 4, 2>>, <<"block", 4, 4>>,
      <<"block", 2, 2>>, <<"block", 4, 3>> }

SendModes == {"eager", "sync"}

\* <<variant, NPROC, N, sendMode>>
Runs == {<<c[1], c[2], c[3], m>> : c \in Configs, m \in SendModes}

Procs == 0 .. (NPROC - 1)

\* ------------------------------------------------------------- topology
\* the floor of the square root of number, bit by bit from the highest
RECURSIVE isqrt_from(_, _, _)
isqrt_from(number, k, bit) ==
    IF bit = 0 THEN k
    ELSE IF k + bit <= number \div (k + bit)
         THEN isqrt_from(number, k + bit, bit \div 2)
         ELSE isqrt_from(number, k, bit \div 2)

\* the largest power of two whose square is at most number (number >= 1)
RECURSIVE pow2_root(_, _)
pow2_root(number, p) ==
    IF 2 * p <= number \div (2 * p) THEN pow2_root(number, 2 * p) ELSE p

\* (int) sqrt((double) number): a double holds the root well enough for the
\* truncation to give its floor
isqrt(number) ==
    IF number < 1 THEN 0
    ELSE isqrt_from(number, pow2_root(number, 1), pow2_root(number, 1) \div 2)

\* the largest power of two that is at most k (k >= 1)
RECURSIVE pow2_below(_, _)
pow2_below(k, p) == IF 2 * p <= k THEN pow2_below(k, 2 * p) ELSE p

\* the number of steps the floats make from k to k + 1 (k >= 1)
floats_per_unit(k) == (FloatTop \div 2) \div pow2_below(k, 1)

\* floatResult = sqrt((double) number) stored in a float is the integer k:
\* number is within half a float step of k * k, from below (up) or above
root_rounds_to(number, k, up) ==
    LET r == number - (isqrt(number) * isqrt(number))
        g == floats_per_unit(isqrt(number))
    IN  /\ isqrt(number) >= 1
        /\ IF up THEN r > 0 /\ k = isqrt(number) + 1 /\ ((2 * isqrt(number)) + 1 - r) * g <= isqrt(number)
           ELSE k = isqrt(number) /\ r * g <= isqrt(number)

\* intResult = floatResult: the float truncated
intResult(number) ==
    IF root_rounds_to(number, isqrt(number) + 1, TRUE) THEN isqrt(number) + 1
    ELSE isqrt(number)

\* is_perfect_square: intResult == floatResult
is_perfect_square(number) ==
    \/ number = 0
    \/ root_rounds_to(number, isqrt(number), FALSE)
    \/ root_rounds_to(number, isqrt(number) + 1, TRUE)

NBCUTS == isqrt(NPROC)

NBLOCK == N \div NBCUTS

\* variant of the configuration checks without the test N = NBCUTS * NBLOCK
ConfigLegal_no_size_check ==
    IF variant = "strip"
    THEN N % NPROC = 0
    ELSE is_perfect_square(NPROC)

ConfigLegal ==
    IF variant = "strip"
    THEN N % NPROC = 0
    ELSE is_perfect_square(NPROC) /\ N = NBCUTS * NBLOCK

\* rows and columns of a tile, ghost cells included
Nlocal_rows == IF variant = "strip" THEN (N \div NPROC) + 2 ELSE NBLOCK + 2

Nlocal_cols == IF variant = "strip" THEN N ELSE NBLOCK + 2

TileSize == Nlocal_rows * Nlocal_cols

\* ---------------------------------------------------------- local tile
\* variant of initialize_local_matrix (laplace_1D) that sets every cell to me
initialize_local_matrix_1D_no_boundary(me) ==
    [x \in 0 .. (TileSize - 1) |-> float_of_int(me)]

initialize_local_matrix_1D(me) ==
    [x \in 0 .. (TileSize - 1) |->
        LET i == x \div N
        IN  IF (i = 0) \/ (i = Nlocal_rows - 1) THEN BOUNDARY ELSE float_of_int(me)]

initialize_local_matrix_2D(me) ==
    [x \in 0 .. (TileSize - 1) |->
        LET i == x \div Nlocal_cols
            j == x % Nlocal_cols
        IN  IF (i = 0) \/ (i = Nlocal_rows - 1) THEN BOUNDARY
            ELSE IF (j = 0) \/ (j = Nlocal_cols - 1) THEN BOUNDARY
            ELSE float_of_int(me)]

initialize_local_matrix(me) ==
    IF variant = "strip" THEN initialize_local_matrix_1D(me)
    ELSE initialize_local_matrix_2D(me)

\* ------------------------------------------------------- halo exchange
\* One MPI_Send / MPI_Recv call: count elements starting at offset start of
\* local_tab, stride elements apart.
Op(kind, peer, tag, start, count, stride) ==
    [kind |-> kind, peer |-> peer, tag |-> tag,
     start |-> start, count |-> count, stride |-> stride]

When(cond, op) == IF cond THEN <<op>> ELSE <<>>

\* variant of update_matrix_1D whose receive from me+1 lands in the top ghost row
update_matrix_1D_recv_top(me) ==
    When(me # 0, Op("send", me - 1, 1, N, N, 1))
    \o When(me # NPROC - 1, Op("send", me + 1, 2, (Nlocal_rows - 2) * N, N, 1))
    \o When(me # 0, Op("recv", me - 1, 2, 0, N, 1))
    \o When(me # NPROC - 1, Op("recv", me + 1, 1, 0, N, 1))

update_matrix_1D(me) ==
    When(me # 0, Op("send", me - 1, 1, N, N, 1))
    \o When(me # NPROC - 1, Op("send", me + 1, 2, (Nlocal_rows - 2) * N, N, 1))
    \o When(me # 0, Op("recv", me - 1, 2, 0, N, 1))
    \o When(me # NPROC - 1, Op("recv", me + 1, 1, (Nlocal_rows - 1) * N, N, 1))

\* variant of update_rows that posts both sends before both receives
update_rows_sends_first(me) ==
    When(me > NBCUTS - 1,
         Op("send", me - NBCUTS, 1, Nlocal_cols + 1, Nlocal_cols - 2, 1))
    \o When(me < NPROC - NBCUTS,
         Op("send", me + NBCUTS, 2, 1 + (Nlocal_rows - 2) * Nlocal_cols, Nlocal_cols - 2, 1))
    \o When(me < NPROC - NBCUTS,
         Op("recv", me + NBCUTS, 1, 1 + (Nlocal_rows - 1) * Nlocal_cols, Nlocal_cols - 2, 1))
    \o When(me > NBCUTS - 1,
         Op("recv", me - NBCUTS, 2, 1, Nlocal_cols - 2, 1))

\* variant of update_rows that sends its top ghost row (row 0) to the up neighbour
update_rows_send_ghost(me) ==
    When(me > NBCUTS - 1,
         Op("send", me - NBCUTS, 1, 1, Nlocal_cols - 2, 1))
    \o When(me < NPROC - NBCUTS,
         Op("recv", me + NBCUTS, 1, 1 + (Nlocal_rows - 1) * Nlocal_cols, Nlocal_cols - 2, 1))
    \o When(me < NPROC - NBCUTS,
         Op("send", me + NBCUTS, 2, 1 + (Nlocal_rows - 2) * Nlocal_cols, Nlocal_cols - 2, 1))
    \o When(me > NBCUTS - 1,
         Op("recv", me - NBCUTS, 2, 1, Nlocal_cols - 2, 1))

\* variant of update_rows whose test for a down neighbour is me <= NPROC - NBCUTS
update_rows_off_by_one(me) ==
    When(me > NBCUTS - 1,
         Op("send", me - NBCUTS, 1, Nlocal_cols + 1, Nlocal_cols - 2, 1))
    \o When(me <= NPROC - NBCUTS,
         Op("recv", me + NBCUTS, 1, 1 + (Nlocal_rows - 1) * Nlocal_cols, Nlocal_cols - 2, 1))
    \o When(me <= NPROC - NBCUTS,
         Op("send", me + NBCUTS, 2, 1 + (Nlocal_rows - 2) * Nlocal_cols, Nlocal_cols - 2, 1))
    \o When(me > NBCUTS - 1,
         Op("recv", me - NBCUTS, 2, 1, Nlocal_cols - 2, 1))

update_rows(me) ==
    When(me > NBCUTS - 1,
         Op("send", me - NBCUTS, 1, Nlocal_cols + 1, Nlocal_cols - 2, 1))
    \o When(me < NPROC - NBCUTS,
         Op("recv", me + NBCUTS, 1, 1 + (Nlocal_rows - 1) * Nlocal_cols, Nlocal_cols - 2, 1))
    \o When(me < NPROC - NBCUTS,
         Op("send", me + NBCUTS, 2, 1 + (Nlocal_rows - 2) * Nlocal_cols, Nlocal_cols - 2, 1))
    \o When(me > NBCUTS - 1,
         Op("recv", me - NBCUTS, 2, 1, Nlocal_cols - 2, 1))

\* variant of update_cols that sends its right ghost column to the right neighbour
update_cols_send_ghost(me) ==
    When(me % NBCUTS # NBCUTS - 1,
         Op("send", me + 1, 3, Nlocal_cols * 2 - 1, Nlocal_rows - 2, Nlocal_cols))
    \o When(me % NBCUTS # 0,
         Op("recv", me - 1, 3, Nlocal_cols, Nlocal_rows - 2, Nlocal_cols))
    \o When(me % NBCUTS # 0,
         Op("send", me - 1, 4, Nlocal_cols + 1, Nlocal_rows - 2, Nlocal_cols))
    \o When(me % NBCUTS # NBCUTS - 1,
         Op("recv", me + 1, 4, Nlocal_cols * 2 - 1, Nlocal_rows - 2, Nlocal_cols))

\* variant of update_cols whose tests for a left neighbour are me != 0
update_cols_left_of_any(me) ==
    When(me % NBCUTS # NBCUTS - 1,
         Op("send", me + 1, 3, Nlocal_cols * 2 - 2, Nlocal_rows - 2, Nlocal_cols))
    \o When(me # 0,
         Op("recv", me - 1, 3, Nlocal_cols, Nlocal_rows - 2, Nlocal_cols))
    \o When(me # 0,
         Op("send", me - 1, 4, Nlocal_cols + 1, Nlocal_rows - 2, Nlocal_cols))
    \o When(me % NBCUTS # NBCUTS - 1,
         Op("recv", me + 1, 4, Nlocal_cols * 2 - 1, Nlocal_rows - 2, Nlocal_cols))

\* variant of update_cols whose receive from the left neighbour lands in column 1
update_cols_recv_interior(me) ==
    When(me % NBCUTS # NBCUTS - 1,
         Op("send", me + 1, 3, Nlocal_cols * 2 - 2, Nlocal_rows - 2, Nlocal_cols))
    \o When(me % NBCUTS # 0,
         Op("recv", me - 1, 3, Nlocal_cols + 1, Nlocal_rows - 2, Nlocal_cols))
    \o When(me % NBCUTS # 0,
         Op("send", me - 1, 4, Nlocal_cols + 1, Nlocal_rows - 2, Nlocal_cols))
    \o When(me % NBCUTS # NBCUTS - 1,
         Op("recv", me + 1, 4, Nlocal_cols * 2 - 1, Nlocal_rows - 2, Nlocal_cols))

update_cols(me) ==
    When(me % NBCUTS # NBCUTS - 1,
         Op("send", me + 1, 3, Nlocal_cols * 2 - 2, Nlocal_rows - 2, Nlocal_cols))
    \o When(me % NBCUTS # 0,
         Op("recv", me - 1, 3, Nlocal_cols, Nlocal_rows - 2, Nlocal_cols))
    \o When(me % NBCUTS # 0,
         Op("send", me - 1, 4, Nlocal_cols + 1, Nlocal_rows - 2, Nlocal_cols))
    \o When(me % NBCUTS # NBCUTS - 1,
         Op("recv", me + 1, 4, Nlocal_cols * 2 - 1, Nlocal_rows - 2, Nlocal_cols))

update_matrix_2D(me) == update_rows(me) \o update_cols(me)

update_matrix(me) ==
    IF variant = "strip" THEN update_matrix_1D(me) ELSE update_matrix_2D(me)

\* variant of Payload that reads count contiguous elements, whatever the stride
Payload_contiguous(tab, op) == [k \in 1 .. op.count |-> tab[op.start + (k - 1)]]

\* the elements a send reads from the tile
Payload(tab, op) == [k \in 1 .. op.count |-> tab[op.start + (k - 1) * op.stride]]

\* the tile after a receive has stored data
Store(tab, op, data) ==
    [x \in DOMAIN tab |->
        IF \E k \in 1 .. op.count : x = op.start + (k - 1) * op.stride
        THEN data[((x - op.start) \div op.stride) + 1]
        ELSE tab[x]]

\* ------------------------------------------------------------ the sweep
\* variant of new_value_1D without the test j == 0 for the left edge
new_value_1D_no_left_edge(tab, i, j) ==
    LET top_neighbor    == tab[j + (i - 1) * N]
        bottom_neighbor == tab[j + (i + 1) * N]
        left_neighbor   == tab[(j - 1) + i * N]
        right_neighbor  == IF j = N - 1 THEN BOUNDARY ELSE tab[(j + 1) + i * N]
    IN  Quarter(float_add(float_add(float_add(bottom_neighbor, top_neighbor),
                                    left_neighbor),
                          right_neighbor))

new_value_1D(tab, i, j) ==
    LET top_neighbor    == tab[j + (i - 1) * N]
        bottom_neighbor == tab[j + (i + 1) * N]
        left_neighbor   == IF j = 0 THEN BOUNDARY ELSE tab[(j - 1) + i * N]
        right_neighbor  == IF j = N - 1 THEN BOUNDARY ELSE tab[(j + 1) + i * N]
    IN  Quarter(float_add(float_add(float_add(bottom_neighbor, top_neighbor),
                                    left_neighbor),
                          right_neighbor))

\* variant of new_value_2D whose left neighbour is taken from the row above
new_value_2D_left_above(tab, i, j) ==
    LET top_neighbor    == tab[j + (i - 1) * Nlocal_cols]
        bottom_neighbor == tab[j + (i + 1) * Nlocal_cols]
        left_neighbor   == tab[(j - 1) + (i - 1) * Nlocal_cols]
        right_neighbor  == tab[(j + 1) + i * Nlocal_cols]
    IN  Quarter(float_add(float_add(float_add(bottom_neighbor, top_neighbor),
                                    left_neighbor),
                          right_neighbor))

new_value_2D(tab, i, j) ==
    LET top_neighbor    == tab[j + (i - 1) * Nlocal_cols]
        bottom_neighbor == tab[j + (i + 1) * Nlocal_cols]
        left_neighbor   == tab[(j - 1) + i * Nlocal_cols]
        right_neighbor  == tab[(j + 1) + i * Nlocal_cols]
    IN  Quarter(float_add(float_add(float_add(bottom_neighbor, top_neighbor),
                                    left_neighbor),
                          right_neighbor))

\* the cells the sweep loops over
SweepCell(i, j) ==
    /\ i >= 1 /\ i < Nlocal_rows - 1
    /\ IF variant = "strip" THEN j >= 0 /\ j < N
       ELSE j >= 1 /\ j < Nlocal_cols - 1

\* new_tab + j + i*Nlocal_cols as written by the first loop nest
new_cell(tab, x) ==
    IF variant = "strip"
    THEN new_value_1D(tab, x \div Nlocal_cols, x % Nlocal_cols)
    ELSE new_value_2D(tab, x \div Nlocal_cols, x % Nlocal_cols)

RECURSIVE SumTo(_, _)
SumTo(f, n) == IF n < 0 THEN 0 ELSE f[n] + SumTo(f, n - 1)

\* (new - old) * (new - old): a float product, widened for the double sum
squared_change(new, old) ==
    double_of_float(float_mul(float_sub(new, old), float_sub(new, old)))

\* f[0] + f[1] + ... + f[n], added in this order
RECURSIVE double_sum(_, _)
double_sum(f, n) == IF n < 0 THEN double_zero ELSE double_add(double_sum(f, n - 1), f[n])

\* local_error_sum accumulated by the first loop nest
sweep_error(tab) ==
    double_sum([x \in DOMAIN tab |->
                   IF SweepCell(x \div Nlocal_cols, x % Nlocal_cols)
                   THEN squared_change(new_cell(tab, x), tab[x])
                   ELSE double_zero],
               TileSize - 1)

\* local_tab after the second loop nest has copied new_tab back
commit(tab) ==
    [x \in DOMAIN tab |->
        IF SweepCell(x \div Nlocal_cols, x % Nlocal_cols) THEN new_cell(tab, x) ELSE tab[x]]

\* the least double whose square root, rounded to a double, is not below
\* PRECISION = 1.0e-2: 0x1.a36e2eb1c432cp-14, one step below the double
\* nearest to 1.0e-4
LeastContinuingSum == <<27487790, 186401580, -66>>

\* while (global_error >= PRECISION), with global_error = sqrt(global_error_sum):
\* sqrt does not decrease, so the test holds from LeastContinuingSum on
loop_continues(gsum) == double_leq(LeastContinuingSum, gsum)

\* ------------------------------------------------------------- control
\* variant of AfterOps for a loop body without the MPI_Allreduce
AfterOps_no_reduction(w, i, it) ==
    IF i <= Len(update_matrix(w)) THEN "exchange" ELSE "sweep"

\* position of worker w once operation i-1 of its halo exchange is done
AfterOps(w, i, it) ==
    IF i <= Len(update_matrix(w)) THEN "exchange"
    ELSE IF it = 0 THEN "sweep" ELSE "allreduce"

CurOp(w) == update_matrix(w)[opi[w]]

Init ==
    /\ \E r \in Runs : variant = r[1] /\ NPROC = r[2] /\ N = r[3] /\ sendMode = r[4]
    /\ pc = [w \in Procs |-> "start"]
    /\ opi = [w \in Procs |-> 1]
    /\ local_tab = [w \in Procs |-> <<>>]
    /\ iter_count = [w \in Procs |-> 0]
    /\ local_error_sum = [w \in Procs |-> double_zero]
    /\ global_error_sum = [w \in Procs |-> double_zero]
    /\ chan = {}
    /\ nsent = [w \in Procs |-> 0]
    /\ reduceIn = [w \in Procs |-> <<>>]
    /\ committed = [w \in Procs |-> <<>>]
    /\ gatherIn = [w \in Procs |-> <<>>]
    /\ barrierIn = [w \in Procs |-> 0]
    /\ recv_matrix = <<>>
    /\ ordered_matrix = <<>>
    /\ final_matrix = <<>>
    /\ file = <<>>

\* variant of Configure in which only rank 0 performs the configuration checks
Configure_root_only(w) ==
    /\ pc[w] = "start"
    /\ IF w # 0 \/ ConfigLegal
       THEN /\ local_tab' = [local_tab EXCEPT ![w] = initialize_local_matrix(w)]
            /\ committed' = [committed EXCEPT ![w] = <<initialize_local_matrix(w)>>]
            /\ pc' = [pc EXCEPT ![w] = AfterOps(w, 1, 0)]
       ELSE /\ pc' = [pc EXCEPT ![w] = "rejecting"]
            /\ UNCHANGED <<local_tab, committed>>
    /\ UNCHANGED <<cfgVars, opi, iter_count, local_error_sum, global_error_sum,
                   chan, nsent, reduceIn, gatherIn, barrierIn, asmVars>>

\* main, from the configuration checks to the call of the first update_matrix,
\* or to the call of MPI_Finalize that follows the error message
Configure(w) ==
    /\ pc[w] = "start"
    /\ IF ConfigLegal
       THEN /\ local_tab' = [local_tab EXCEPT ![w] = initialize_local_matrix(w)]
            /\ committed' = [committed EXCEPT ![w] = <<initialize_local_matrix(w)>>]
            /\ pc' = [pc EXCEPT ![w] = AfterOps(w, 1, 0)]
       ELSE /\ pc' = [pc EXCEPT ![w] = "rejecting"]
            /\ UNCHANGED <<local_tab, committed>>
    /\ UNCHANGED <<cfgVars, opi, iter_count, local_error_sum, global_error_sum,
                   chan, nsent, reduceIn, gatherIn, barrierIn, asmVars>>

Matching(w, op) == {m \in chan : m.dst = w /\ m.src = op.peer /\ m.tag = op.tag}

CanSendEager(w) ==
    pc[w] = "exchange" /\ sendMode = "eager" /\ CurOp(w).kind = "send"

\* MPI_Send completing locally: the message is buffered
SendEager(w) ==
    /\ CanSendEager(w)
    /\ LET op == CurOp(w)
       IN  /\ chan' = chan \cup {[src |-> w, dst |-> op.peer, tag |-> op.tag,
                                  sn |-> nsent[w], round |-> iter_count[w],
                                  data |-> Payload(local_tab[w], op)]}
    /\ nsent' = [nsent EXCEPT ![w] = @ + 1]
    /\ opi' = [opi EXCEPT ![w] = @ + 1]
    /\ pc' = [pc EXCEPT ![w] = AfterOps(w, opi[w] + 1, iter_count[w])]
    /\ UNCHANGED <<cfgVars, local_tab, iter_count, local_error_sum, global_error_sum,
                   reduceIn, committed, gatherIn, barrierIn, asmVars>>

CanRecv(w) ==
    pc[w] = "exchange" /\ CurOp(w).kind = "recv" /\ Matching(w, CurOp(w)) # {}

\* variant of Recv that takes any buffered message matching source and tag
Recv_any_match(w) ==
    /\ CanRecv(w)
    /\ LET op == CurOp(w)
       IN  /\ \E m \in Matching(w, op) :
                /\ local_tab' = [local_tab EXCEPT ![w] = Store(@, op, m.data)]
                /\ chan' = chan \ {m}
    /\ opi' = [opi EXCEPT ![w] = @ + 1]
    /\ pc' = [pc EXCEPT ![w] = AfterOps(w, opi[w] + 1, iter_count[w])]
    /\ UNCHANGED <<cfgVars, iter_count, local_error_sum, global_error_sum,
                   nsent, reduceIn, committed, gatherIn, barrierIn, asmVars>>

\* MPI_Recv of a buffered message: the earliest one sent that matches source and tag
Recv(w) ==
    /\ CanRecv(w)
    /\ LET op == CurOp(w)
       IN  /\ \E m \in Matching(w, op) :
                /\ \A m2 \in Matching(w, op) : m.sn <= m2.sn
                /\ local_tab' = [local_tab EXCEPT ![w] = Store(@, op, m.data)]
                /\ chan' = chan \ {m}
    /\ opi' = [opi EXCEPT ![w] = @ + 1]
    /\ pc' = [pc EXCEPT ![w] = AfterOps(w, opi[w] + 1, iter_count[w])]
    /\ UNCHANGED <<cfgVars, iter_count, local_error_sum, global_error_sum,
                   nsent, reduceIn, committed, gatherIn, barrierIn, asmVars>>

\* s is inside a synchronous MPI_Send and its peer has posted the matching MPI_Recv
CanRendezvous(s) ==
    /\ pc[s] = "exchange"
    /\ sendMode = "sync"
    /\ LET ops == CurOp(s)
           r == ops.peer
       IN  /\ ops.kind = "send"
           /\ pc[r] = "exchange"
           /\ LET opr == CurOp(r)
              IN  opr.kind = "recv" /\ opr.peer = s /\ opr.tag = ops.tag

\* MPI_Send that completes only with the matching MPI_Recv posted: the
\* sender s and the receiver both return
Rendezvous(s) ==
    /\ CanRendezvous(s)
    /\ LET ops == CurOp(s)
           r == ops.peer
       IN  /\ LET opr == CurOp(r)
              IN  /\ local_tab' = [local_tab EXCEPT
                                      ![r] = Store(@, opr, Payload(local_tab[s], ops))]
           /\ opi' = [opi EXCEPT ![s] = @ + 1, ![r] = @ + 1]
           /\ pc' = [pc EXCEPT ![s] = AfterOps(s, opi[s] + 1, iter_count[s]),
                               ![r] = AfterOps(r, opi[r] + 1, iter_count[r])]
    /\ nsent' = [nsent EXCEPT ![s] = @ + 1]
    /\ UNCHANGED <<cfgVars, iter_count, local_error_sum, global_error_sum,
                   chan, reduceIn, committed, gatherIn, barrierIn, asmVars>>

\* variant of Sweep in which local_error_sum is not reset at the top of the loop body
Sweep_error_not_reset(w) ==
    /\ pc[w] = "sweep"
    /\ iter_count' = [iter_count EXCEPT ![w] = @ + 1]
    /\ local_error_sum' = [local_error_sum EXCEPT ![w] =
                              double_add(@, sweep_error(local_tab[w]))]
    /\ local_tab' = [local_tab EXCEPT ![w] = commit(@)]
    /\ committed' = [committed EXCEPT ![w] = Append(@, commit(local_tab[w]))]
    /\ opi' = [opi EXCEPT ![w] = 1]
    /\ pc' = [pc EXCEPT ![w] = AfterOps(w, 1, iter_count[w] + 1)]
    /\ UNCHANGED <<cfgVars, global_error_sum, chan, nsent, reduceIn,
                   gatherIn, barrierIn, asmVars>>

\* laplace: one pass of the loop body up to the call of update_matrix
Sweep(w) ==
    /\ pc[w] = "sweep"
    /\ iter_count' = [iter_count EXCEPT ![w] = @ + 1]
    /\ local_error_sum' = [local_error_sum EXCEPT ![w] = sweep_error(local_tab[w])]
    /\ local_tab' = [local_tab EXCEPT ![w] = commit(@)]
    /\ committed' = [committed EXCEPT ![w] = Append(@, commit(local_tab[w]))]
    /\ opi' = [opi EXCEPT ![w] = 1]
    /\ pc' = [pc EXCEPT ![w] = AfterOps(w, 1, iter_count[w] + 1)]
    /\ UNCHANGED <<cfgVars, global_error_sum, chan, nsent, reduceIn,
                   gatherIn, barrierIn, asmVars>>

\* MPI_Allreduce entered: the worker contributes local_error_sum and blocks
AllreduceEnter(w) ==
    /\ pc[w] = "allreduce"
    /\ reduceIn' = [reduceIn EXCEPT ![w] = Append(@, local_error_sum[w])]
    /\ pc' = [pc EXCEPT ![w] = "reduce_wait"]
    /\ UNCHANGED <<cfgVars, opi, local_tab, iter_count, local_error_sum,
                   global_error_sum, chan, nsent, committed, gatherIn, barrierIn, asmVars>>

\* variant of reduce_sum that leaves out the contribution of the last rank
reduce_sum_short(k) ==
    double_sum([v \in Procs |-> reduceIn[v][k]], NPROC - 2)

reduce_sum(k) ==
    double_sum([v \in Procs |-> reduceIn[v][k]], NPROC - 1)

CanAllreduceExit(w) ==
    pc[w] = "reduce_wait" /\ \A v \in Procs : Len(reduceIn[v]) >= iter_count[w]

\* MPI_Allreduce returns once every worker has contributed; then the loop test
AllreduceExit(w) ==
    /\ CanAllreduceExit(w)
    /\ global_error_sum' = [global_error_sum EXCEPT ![w] = reduce_sum(iter_count[w])]
    /\ pc' = [pc EXCEPT ![w] =
                IF loop_continues(reduce_sum(iter_count[w])) THEN "sweep" ELSE "converged"]
    /\ UNCHANGED <<cfgVars, opi, local_tab, iter_count, local_error_sum,
                   chan, nsent, reduceIn, committed, gatherIn, barrierIn, asmVars>>

\* ------------------------------------------------------- timing report
\* main: the positions before the three MPI_Reduce calls (MPI_MAX, MPI_MIN and
\* MPI_SUM of local_time, root 0) and the one after them; "converged" is the
\* return from laplace
TimePositions == <<"converged", "time_min", "time_avg", "report">>

\* worker v has made the three MPI_Reduce calls: it is at a later position of
\* main, or has left through the exit(-1) of a malloc that follows them
AfterTiming(v) ==
    pc[v] \in {"report", "save", "gather_wait", "barrier", "barrier_wait",
               "collect", "assemble", "finalize", "done",
               "exit_print_matrix", "exit_save_matrix", "exit_recv_matrix",
               "exit_ordered_matrix", "exit_final_matrix"}

\* number of these MPI_Reduce calls worker v has made
time_calls(v) ==
    IF pc[v] = "time_min" THEN 1
    ELSE IF pc[v] = "time_avg" THEN 2
    ELSE IF AfterTiming(v) THEN 3
    ELSE 0

CanTimeReduce(w) ==
    /\ pc[w] \in {"converged", "time_min", "time_avg"}
    /\ w = root_id => \A v \in Procs : v # w => time_calls(v) > time_calls(w)

\* MPI_Reduce: a worker other than the root contributes and returns; the root
\* returns once every worker has contributed.  The values reduced are wall-clock
\* times, which the root prints and nothing else reads.
TimeReduce(w) ==
    /\ CanTimeReduce(w)
    /\ pc' = [pc EXCEPT ![w] = TimePositions[time_calls(w) + 2]]
    /\ UNCHANGED <<cfgVars, loopVars, chan, gatherIn, barrierIn, asmVars>>

\* -------------------------------------------------------- result assembly
\* element at C offset off of a buffer kept as a sequence
At(buf, off) == buf[off + 1]

\* number of significant values of a block tile
nb_subdata == (Nlocal_rows - 2) * (Nlocal_cols - 2)

\* variant of gather_sendbuf that starts at local_tab (the top ghost row)
gather_sendbuf_from_ghost(tab) == [k \in 1 .. N * (N \div NPROC) |-> tab[k - 1]]

\* MPI_Gather send buffer of laplace_1D: N*(N/NPROC) floats from local_tab+N
gather_sendbuf(tab) == [k \in 1 .. N * (N \div NPROC) |-> tab[N + (k - 1)]]

\* the elements of local_tab selected by the datatype mysubarray
\* (starts {1,1}, subsizes {Nlocal_rows-2, Nlocal_cols-2}, C order)
mysubarray(tab) ==
    [k \in 1 .. nb_subdata |->
        tab[(1 + ((k - 1) \div (Nlocal_cols - 2))) * Nlocal_cols
            + 1 + ((k - 1) % (Nlocal_cols - 2))]]

\* largest exponent of a finite float
MaxExp == 104

\* The content of a malloc'ed cell that no assignment has written is
\* indeterminate: any of the 2^32 bit patterns of a float.  These are the
\* denormal numbers and the zeros, the normal numbers, and, written with the
\* exponent MaxExp + 1 and the 23 bits of the fraction, the infinities and NaN.
MallocValues ==
    {v \in (0 .. 1) \X (0 .. (FloatTop - 1)) \X (MinExp .. (MaxExp + 1)) :
        \/ v[3] = MinExp /\ 2 * v[2] < FloatTop
        \/ v[3] <= MaxExp /\ 2 * v[2] >= FloatTop
        \/ v[3] = MaxExp + 1 /\ 2 * v[2] < FloatTop}

\* a buffer of N*N floats allocated with the given content, once its first
\* Len(written) cells have been written
malloc_buffer(written, content) ==
    [k \in 1 .. N * N |-> IF k <= Len(written) THEN written[k] ELSE content[k - 1]]

\* the cells of final_matrix (C offsets) that MPI_Gather leaves as allocated
ungathered_cells == (NPROC * N * (N \div NPROC)) .. (N * N - 1)

RECURSIVE gather_recvbuf(_, _)
\* MPI_Gather receive buffer at the root: the k-th contributions, in rank order from rank v
gather_recvbuf(k, v) ==
    IF v >= NPROC THEN <<>> ELSE gatherIn[v][k] \o gather_recvbuf(k, v + 1)

\* variant of STEP 2 that keeps the rank order of recv_matrix
reorder_by_rank(recv, modulo_result, i, acc) == recv

RECURSIVE reorder_by_modulo(_, _, _, _)
\* STEP 2: ordered_matrix; acc holds the pivot_inter rows copied so far
reorder_by_modulo(recv, modulo_result, i, acc) ==
    IF modulo_result >= NBCUTS THEN acc
    ELSE IF i >= NPROC THEN reorder_by_modulo(recv, modulo_result + 1, 0, acc)
    ELSE IF i % NBCUTS = modulo_result
         THEN reorder_by_modulo(recv, modulo_result, i + 1,
                  acc \o [j \in 1 .. nb_subdata |-> At(recv, (j - 1) + i * nb_subdata)])
         ELSE reorder_by_modulo(recv, modulo_result, i + 1, acc)

RECURSIVE block_writes_reset(_, _, _, _)
\* variant of STEP 3 whose offset starts again from 0 at every vertical step
block_writes_reset(vertical_step, i, j, offset) ==
    IF vertical_step >= NBCUTS THEN <<>>
    ELSE IF i >= N
         THEN block_writes_reset(vertical_step + 1, 0,
                                 (Nlocal_cols - 2) * (vertical_step + 1), 0)
    ELSE IF j >= ((Nlocal_cols - 2) * vertical_step) + (Nlocal_cols - 2)
         THEN block_writes_reset(vertical_step, i + 1, (Nlocal_cols - 2) * vertical_step, offset)
    ELSE <<[idx |-> j + i * N, off |-> offset]>>
            \o block_writes_reset(vertical_step, i, j + 1, offset + 1)

RECURSIVE block_writes(_, _, _, _)
\* STEP 3: the assignments final_matrix[idx] = ordered_matrix[off], in program order
block_writes(vertical_step, i, j, offset) ==
    IF vertical_step >= NBCUTS THEN <<>>
    ELSE IF i >= N
         THEN block_writes(vertical_step + 1, 0,
                           (Nlocal_cols - 2) * (vertical_step + 1), offset)
    ELSE IF j >= ((Nlocal_cols - 2) * vertical_step) + (Nlocal_cols - 2)
         THEN block_writes(vertical_step, i + 1, (Nlocal_cols - 2) * vertical_step, offset)
    ELSE <<[idx |-> j + i * N, off |-> offset]>>
            \o block_writes(vertical_step, i, j + 1, offset + 1)

Max(S) == CHOOSE m \in S : \A n \in S : n <= m

\* the cells of ordered_matrix (C offsets) that STEP 2 leaves as allocated
unwritten_cells == (NPROC * nb_subdata) .. (N * N - 1)

\* the cells of final_matrix (C offsets) that STEP 3 leaves as allocated
unassigned_cells ==
    LET writes == block_writes(0, 0, 0, 0)
    IN  (0 .. (N * N - 1)) \ {writes[k].idx : k \in 1 .. Len(writes)}

\* ordered_matrix, a buffer of N*N floats allocated with the content stale, once
\* STEP 2 has copied the sub-blocks
ordered_buffer(recv, stale) ==
    malloc_buffer(reorder_by_modulo(recv, 0, 0, <<>>), stale)

\* final_matrix, a buffer of N*N floats allocated with the content fresh, once the
\* assignments of STEP 3 are done
block_reorder(ordered, fresh) ==
    LET writes == block_writes(0, 0, 0, 0)
    IN  [x \in 1 .. N * N |->
            LET W == {k \in 1 .. Len(writes) : writes[k].idx = x - 1}
            IN  IF W = {} THEN fresh[x - 1] ELSE At(ordered, writes[Max(W)].off)]

\* fprintf "%f": the sign and the value rounded to 6 decimals (ties to even),
\* in millionths.  |v| * 1000000 is m * 15625 / 2^k with k = -(e + 6); the
\* product m * 15625 is kept as H * 2^12 + L.  For |v| below 2048.
fprintf_f(v) ==
    LET k  == 0 - (v[3] + 6)
        B  == 2 ^ 12
        lp == (v[2] % B) * 15625
        H  == ((v[2] \div B) * 15625) + (lp \div B)
        L  == lp % B
        j  == k - 12
        q  == IF k <= 12 THEN (H * (2 ^ (12 - k))) + (L \div (2 ^ k))
              ELSE IF j >= 30 THEN 0
              ELSE H \div (2 ^ j)
        c  == IF k <= 12 THEN (2 * (L % (2 ^ k))) - (2 ^ k)
              ELSE IF j >= 30 THEN 0 - 1
              ELSE IF H % (2 ^ j) # 2 ^ (j - 1) THEN (2 * (H % (2 ^ j))) - (2 ^ j)
              ELSE L
    IN  <<v[1], IF c > 0 \/ (c = 0 /\ q % 2 = 1) THEN q + 1 ELSE q>>

\* variant of save_file that writes the rows from 0 to N-1
save_file_forward(final) ==
    [t \in 1 .. N |-> [j \in 1 .. N |-> fprintf_f(At(final, (j - 1) + (t - 1) * N))]]

\* the lines of the result file: for (i = N-1; i >= 0; i--) for (j = 0; j < N; j++)
save_file(final) ==
    [t \in 1 .. N |-> [j \in 1 .. N |-> fprintf_f(At(final, (j - 1) + (N - t) * N))]]

\* laplace_1D: MPI_Gather entered in print_final_matrix (first call) and in
\* save_file_final_matrix (second call); a non-root worker returns at once
GatherEnter(w) ==
    /\ variant = "strip"
    /\ pc[w] \in {"report", "save"}
    /\ gatherIn' = [gatherIn EXCEPT ![w] = Append(@, gather_sendbuf(local_tab[w]))]
    /\ pc' = [pc EXCEPT ![w] = IF w = root_id THEN "gather_wait"
                               ELSE IF pc[w] = "report" THEN "save" ELSE "barrier"]
    /\ UNCHANGED <<cfgVars, loopVars, chan, barrierIn, asmVars>>

CanGatherRoot(w) ==
    pc[w] = "gather_wait" /\ \A v \in Procs : Len(gatherIn[v]) >= Len(gatherIn[w])

\* laplace_1D: MPI_Gather returns at the root; the second one is followed by the file
GatherRoot(w) ==
    /\ CanGatherRoot(w)
    /\ \E fresh \in [ungathered_cells -> MallocValues] :
        /\ final_matrix' = malloc_buffer(gather_recvbuf(Len(gatherIn[w]), 0), fresh)
        /\ IF Len(gatherIn[w]) = 1
           THEN UNCHANGED file
           ELSE file' = save_file(malloc_buffer(gather_recvbuf(Len(gatherIn[w]), 0), fresh))
    /\ pc' = [pc EXCEPT ![w] = IF Len(gatherIn[w]) = 1 THEN "save" ELSE "barrier"]
    /\ UNCHANGED <<cfgVars, loopVars, chan, gatherIn, barrierIn,
                   recv_matrix, ordered_matrix>>

\* laplace_2D print_and_save_final_matrix: MPI_Isend of the significant values to rank 0
Isend(w) ==
    /\ variant = "block"
    /\ pc[w] = "report"
    /\ chan' = chan \cup {[src |-> w, dst |-> 0, tag |-> w, sn |-> nsent[w],
                           round |-> iter_count[w], data |-> mysubarray(local_tab[w])]}
    /\ nsent' = [nsent EXCEPT ![w] = @ + 1]
    /\ pc' = [pc EXCEPT ![w] = "barrier"]
    /\ UNCHANGED <<cfgVars, opi, local_tab, iter_count, local_error_sum,
                   global_error_sum, reduceIn, committed, gatherIn, barrierIn, asmVars>>

BarrierEnter(w) ==
    /\ pc[w] = "barrier"
    /\ barrierIn' = [barrierIn EXCEPT ![w] = @ + 1]
    /\ pc' = [pc EXCEPT ![w] = "barrier_wait"]
    /\ UNCHANGED <<cfgVars, loopVars, chan, gatherIn, asmVars>>

\* number of MPI_Barrier calls between laplace and MPI_Finalize
NbBarriers == IF variant = "strip" THEN NPROC ELSE NPROC + 1

\* variant of AfterBarrier for a main without the printing loop and its barriers
AfterBarrier_no_print_loop(w, k) ==
    IF variant = "block" /\ k = 1
    THEN IF w = 0 THEN "collect" ELSE "finalize"
    ELSE "finalize"

\* position after the k-th barrier
AfterBarrier(w, k) ==
    IF variant = "block" /\ k = 1
    THEN IF w = 0 THEN "collect" ELSE "barrier"
    ELSE IF k >= NbBarriers THEN "finalize" ELSE "barrier"

CanBarrierExit(w) ==
    pc[w] = "barrier_wait" /\ \A v \in Procs : barrierIn[v] >= barrierIn[w]

\* MPI_Barrier returns once every worker has entered it
BarrierExit(w) ==
    /\ CanBarrierExit(w)
    /\ pc' = [pc EXCEPT ![w] = AfterBarrier(w, barrierIn[w])]
    /\ UNCHANGED <<cfgVars, loopVars, chan, gatherIn, barrierIn, asmVars>>

\* the MPI_Recv of STEP 1 for rank i (the next one in the loop)
collect_op == LET i == Len(recv_matrix) \div nb_subdata
              IN  Op("recv", i, i, 0, nb_subdata, 1)

CanCollect(w) == pc[w] = "collect" /\ Matching(w, collect_op) # {}

\* STEP 1, one pass of the loop: MPI_Recv from rank i with tag i
Collect(w) ==
    /\ CanCollect(w)
    /\ LET i == Len(recv_matrix) \div nb_subdata
           op == collect_op
       IN  \E m \in Matching(w, op) :
            /\ \A m2 \in Matching(w, op) : m.sn <= m2.sn
            /\ recv_matrix' = recv_matrix \o m.data
            /\ chan' = chan \ {m}
            /\ pc' = [pc EXCEPT ![w] = IF i + 1 < NPROC THEN "collect" ELSE "assemble"]
    /\ UNCHANGED <<cfgVars, loopVars, gatherIn, barrierIn,
                   ordered_matrix, final_matrix, file>>

\* STEP 2, STEP 3 and the file; ordered_matrix and final_matrix are allocated for
\* N*N floats with indeterminate content
AssembleSave(w) ==
    /\ pc[w] = "assemble"
    /\ \E stale \in [unwritten_cells -> MallocValues] :
        \E fresh \in [unassigned_cells -> MallocValues] :
            /\ ordered_matrix' = ordered_buffer(recv_matrix, stale)
            /\ final_matrix' = block_reorder(ordered_buffer(recv_matrix, stale), fresh)
            /\ file' = save_file(block_reorder(ordered_buffer(recv_matrix, stale), fresh))
    /\ pc' = [pc EXCEPT ![w] = "barrier"]
    /\ UNCHANGED <<cfgVars, loopVars, chan, gatherIn, barrierIn, recv_matrix>>

\* MPI_Finalize returns: at the end of main, or on the error path of the
\* configuration checks, where exit(-1) follows
Finalize(w) ==
    /\ pc[w] \in {"finalize", "rejecting"}
    /\ pc' = [pc EXCEPT ![w] = IF pc[w] = "rejecting" THEN "rejected" ELSE "done"]
    /\ UNCHANGED <<cfgVars, loopVars, chan, gatherIn, barrierIn, asmVars>>

\* worker w can take a step: it is not blocked in a communication call
Runnable(w) ==
    \/ pc[w] \in {"start", "rejecting", "sweep", "allreduce", "report", "save",
                  "barrier", "assemble", "finalize"}
    \/ CanSendEager(w)
    \/ CanRecv(w)
    \/ CanRendezvous(w)
    \/ \E s \in Procs : CanRendezvous(s) /\ CurOp(s).peer = w
    \/ CanAllreduceExit(w)
    \/ CanTimeReduce(w)
    \/ CanGatherRoot(w)
    \/ CanBarrierExit(w)
    \/ CanCollect(w)

Next ==
    \/ \E w \in Procs : Configure(w)
    \/ \E w \in Procs : SendEager(w)
    \/ \E w \in Procs : Recv(w)
    \/ \E w \in Procs : Rendezvous(w)
    \/ \E w \in Procs : Sweep(w)
    \/ \E w \in Procs : AllreduceEnter(w)
    \/ \E w \in Procs : AllreduceExit(w)
    \/ \E w \in Procs : TimeReduce(w)
    \/ \E w \in Procs : GatherEnter(w)
    \/ \E w \in Procs : GatherRoot(w)
    \/ \E w \in Procs : Isend(w)
    \/ \E w \in Procs : BarrierEnter(w)
    \/ \E w \in Procs : BarrierExit(w)
    \/ \E w \in Procs : Collect(w)
    \/ \E w \in Procs : AssembleSave(w)
    \/ \E w \in Procs : Finalize(w)

Spec == Init /\ [][Next]_vars

\* every process keeps running: some enabled step is eventually taken
FairSpec == Spec /\ WF_vars(Next)

\* ------------------------------------------- runs with allocation failure
\* Every malloc of the program is followed by "if (p == NULL) { exit(-1); }": the
\* worker leaves without MPI_Finalize and without telling its peers.  Each of
\* these exits has its own final position.

\* main: malloc of local_tab returns NULL, after the configuration checks
LocalTabFail(w) ==
    /\ pc[w] = "start"
    /\ ConfigLegal
    /\ pc' = [pc EXCEPT ![w] = "exit_local_tab"]
    /\ UNCHANGED <<cfgVars, loopVars, chan, gatherIn, barrierIn, asmVars>>

\* laplace: malloc of new_tab returns NULL, before the first pass of the loop
AllocFail(w) ==
    /\ pc[w] = "sweep"
    /\ iter_count[w] = 0
    /\ pc' = [pc EXCEPT ![w] = "aborted"]
    /\ UNCHANGED <<cfgVars, loopVars, chan, gatherIn, barrierIn, asmVars>>

\* laplace_1D print_final_matrix: malloc of final_matrix returns NULL, on any
\* rank, before the first MPI_Gather
PrintMatrixFail(w) ==
    /\ variant = "strip"
    /\ pc[w] = "report"
    /\ pc' = [pc EXCEPT ![w] = "exit_print_matrix"]
    /\ UNCHANGED <<cfgVars, loopVars, chan, gatherIn, barrierIn, asmVars>>

\* laplace_1D save_file_final_matrix: malloc of final_matrix returns NULL, on
\* any rank, before the second MPI_Gather
SaveMatrixFail(w) ==
    /\ variant = "strip"
    /\ pc[w] = "save"
    /\ pc' = [pc EXCEPT ![w] = "exit_save_matrix"]
    /\ UNCHANGED <<cfgVars, loopVars, chan, gatherIn, barrierIn, asmVars>>

\* laplace_2D print_and_save_final_matrix, rank 0: malloc of recv_matrix returns
\* NULL, before the first MPI_Recv of STEP 1
RecvMatrixFail(w) ==
    /\ pc[w] = "collect"
    /\ recv_matrix = <<>>
    /\ pc' = [pc EXCEPT ![w] = "exit_recv_matrix"]
    /\ UNCHANGED <<cfgVars, loopVars, chan, gatherIn, barrierIn, asmVars>>

\* rank 0: malloc of ordered_matrix returns NULL, STEP 1 being complete
OrderedMatrixFail(w) ==
    /\ pc[w] = "assemble"
    /\ pc' = [pc EXCEPT ![w] = "exit_ordered_matrix"]
    /\ UNCHANGED <<cfgVars, loopVars, chan, gatherIn, barrierIn, asmVars>>

\* rank 0: malloc of final_matrix returns NULL, STEP 2 having filled ordered_matrix
FinalMatrixFail(w) ==
    /\ pc[w] = "assemble"
    /\ \E stale \in [unwritten_cells -> MallocValues] :
        ordered_matrix' = ordered_buffer(recv_matrix, stale)
    /\ pc' = [pc EXCEPT ![w] = "exit_final_matrix"]
    /\ UNCHANGED <<cfgVars, loopVars, chan, gatherIn, barrierIn,
                   recv_matrix, final_matrix, file>>

\* the positions of a worker that has left through one of these exits
ExitPositions ==
    {"exit_local_tab", "aborted", "exit_print_matrix", "exit_save_matrix",
     "exit_recv_matrix", "exit_ordered_matrix", "exit_final_matrix"}

NextFail ==
    \/ Next
    \/ \E w \in Procs : LocalTabFail(w)
    \/ \E w \in Procs : AllocFail(w)
    \/ \E w \in Procs : PrintMatrixFail(w)
    \/ \E w \in Procs : SaveMatrixFail(w)
    \/ \E w \in Procs : RecvMatrixFail(w)
    \/ \E w \in Procs : OrderedMatrixFail(w)
    \/ \E w \in Procs : FinalMatrixFail(w)

\* the runs with two to four workers
RunsFail == {r \in Runs : r[2] \in 2 .. 4}

InitFail ==
    /\ Init
    /\ <<variant, NPROC, N, sendMode>> \in RunsFail

\* the runs in which any malloc may fail
SpecFail == InitFail /\ [][NextFail]_vars

\* ------------------------------------- runs legal in both decompositions
\* the runs on a grid of 4 x 4 with one and with four workers
RunsLong ==
    {<<v, p, 4, m>> : v \in {"strip", "block"}, p \in {1, 4}, m \in SendModes}

InitLong ==
    /\ \E r \in RunsLong : variant = r[1] /\ NPROC = r[2] /\ N = r[3] /\ sendMode = r[4]
    /\ pc = [w \in Procs |-> "start"]
    /\ opi = [w \in Procs |-> 1]
    /\ local_tab = [w \in Procs |-> <<>>]
    /\ iter_count = [w \in Procs |-> 0]
    /\ local_error_sum = [w \in Procs |-> double_zero]
    /\ global_error_sum = [w \in Procs |-> double_zero]
    /\ chan = {}
    /\ nsent = [w \in Procs |-> 0]
    /\ reduceIn = [w \in Procs |-> <<>>]
    /\ committed = [w \in Procs |-> <<>>]
    /\ gatherIn = [w \in Procs |-> <<>>]
    /\ barrierIn = [w \in Procs |-> 0]
    /\ recv_matrix = <<>>
    /\ ordered_matrix = <<>>
    /\ final_matrix = <<>>
    /\ file = <<>>

SpecLong == InitLong /\ [][Next]_vars

\* ------------------------------------------- runs with very many processes
\* process counts around 2^24, where sqrt((double) number) no longer fits a
\* float exactly, and grid sizes around their roots
ManyProcesses ==
    {(2 ^ 24) - 1, 2 ^ 24, (2 ^ 24) + 1, (2 ^ 24) + 2,
     (4097 * 4097) - 2, (4097 * 4097) - 1, 4097 * 4097, (4097 * 4097) + 1,
     (5000 * 5000) - 1, 5000 * 5000}

RunsMany == {<<p, n>> : p \in ManyProcesses, n \in {100, 4096, 4097, 8192, 8194, 10000}}

\* laplace_2D started with that many processes, followed at rank root_id only
InitMany ==
    /\ \E r \in RunsMany : NPROC = r[1] /\ N = r[2]
    /\ variant = "block" /\ sendMode = "eager"
    /\ pc = [w \in {root_id} |-> "start"]
    /\ opi = [w \in {root_id} |-> 1]
    /\ local_tab = [w \in {root_id} |-> <<>>]
    /\ iter_count = [w \in {root_id} |-> 0]
    /\ local_error_sum = [w \in {root_id} |-> double_zero]
    /\ global_error_sum = [w \in {root_id} |-> double_zero]
    /\ chan = {}
    /\ nsent = [w \in {root_id} |-> 0]
    /\ reduceIn = [w \in {root_id} |-> <<>>]
    /\ committed = [w \in {root_id} |-> <<>>]
    /\ gatherIn = [w \in {root_id} |-> <<>>]
    /\ barrierIn = [w \in {root_id} |-> 0]
    /\ recv_matrix = <<>>
    /\ ordered_matrix = <<>>
    /\ final_matrix = <<>>
    /\ file = <<>>

NextMany == Configure(root_id) \/ Finalize(root_id)

\* the configuration checks of main for very many processes
SpecMany == InitMany /\ [][NextMany]_vars

\* ------------------------------------------------ the first halo exchange
\* update_matrix as main calls it first, on the tiles of initialize_local_matrix;
\* a worker whose update_matrix has returned is at "sweep".  Up to four workers
\* with both kinds of send, nine and sixteen with synchronous sends.
RunsExchange ==
    {<<c[1], c[2], c[3], m>> :
        c \in {<<"strip", 2, 4>>, <<"strip", 3, 3>>, <<"strip", 4, 4>>,
               <<"block", 4, 2>>, <<"block", 4, 4>>},
        m \in SendModes}
    \cup {<<"block", 9, 3, "sync">>, <<"block", 9, 6, "sync">>, <<"block", 16, 4, "sync">>}

InitExchange ==
    /\ \E r \in RunsExchange :
            variant = r[1] /\ NPROC = r[2] /\ N = r[3] /\ sendMode = r[4]
    /\ pc = [w \in Procs |-> AfterOps(w, 1, 0)]
    /\ opi = [w \in Procs |-> 1]
    /\ local_tab = [w \in Procs |-> initialize_local_matrix(w)]
    /\ iter_count = [w \in Procs |-> 0]
    /\ local_error_sum = [w \in Procs |-> double_zero]
    /\ global_error_sum = [w \in Procs |-> double_zero]
    /\ chan = {}
    /\ nsent = [w \in Procs |-> 0]
    /\ reduceIn = [w \in Procs |-> <<>>]
    /\ committed = [w \in Procs |-> <<initialize_local_matrix(w)>>]
    /\ gatherIn = [w \in Procs |-> <<>>]
    /\ barrierIn = [w \in Procs |-> 0]
    /\ recv_matrix = <<>>
    /\ ordered_matrix = <<>>
    /\ final_matrix = <<>>
    /\ file = <<>>

NextExchange ==
    \/ \E w \in Procs : SendEager(w)
    \/ \E w \in Procs : Recv(w)
    \/ \E w \in Procs : Rendezvous(w)

\* the first call of update_matrix on every worker
SpecExchange == InitExchange /\ [][NextExchange]_vars

\* =================================================================== claims

\* ------------------------------------------------------------ vocabulary
\* worker w terminates with the configuration error: it is inside the
\* MPI_Finalize that follows the message, or has left through exit(-1)
Rejecting(w) == pc[w] \in {"rejecting", "rejected"}

Started(w) == pc[w] # "start" /\ ~Rejecting(w)

\* neighbours by the topology rule
HasUp(w)    == IF variant = "strip" THEN w # 0 ELSE w >= NBCUTS
HasDown(w)  == IF variant = "strip" THEN w # NPROC - 1 ELSE w < NPROC - NBCUTS
HasLeft(w)  == variant = "block" /\ w % NBCUTS # 0
HasRight(w) == variant = "block" /\ w % NBCUTS # NBCUTS - 1
UpOf(w)     == IF variant = "strip" THEN w - 1 ELSE w - NBCUTS
DownOf(w)   == IF variant = "strip" THEN w + 1 ELSE w + NBCUTS

\* number of operations of the row phase of worker w
NbRowOps(w) ==
    IF variant = "strip" THEN Len(update_matrix_1D(w)) ELSE Len(update_rows(w))

\* w has completed the row phase of the exchange that follows sweep iter_count[w]
RowPhaseDone(w) == Started(w) /\ (pc[w] = "exchange" => opi[w] > NbRowOps(w))

\* w has completed the whole exchange that follows sweep iter_count[w]
ExchangeDone(w) == Started(w) /\ pc[w] # "exchange"

\* columns of a row that the row phase transfers
RowCols == IF variant = "strip" THEN 0 .. (N - 1) ELSE 1 .. (Nlocal_cols - 2)

Cell(tab, i, j) == tab[j + i * Nlocal_cols]

\* an owned (interior) cell of a tile
IsInterior(x) ==
    /\ x \div Nlocal_cols >= 1 /\ x \div Nlocal_cols <= Nlocal_rows - 2
    /\ variant = "block" => (x % Nlocal_cols >= 1 /\ x % Nlocal_cols <= Nlocal_cols - 2)

\* w is inside MPI_Send towards b, a send that returns only with the receive posted
InSyncSendTo(a, b) ==
    /\ sendMode = "sync"
    /\ pc[a] = "exchange"
    /\ CurOp(a).kind = "send"
    /\ CurOp(a).peer = b

PastLoop(w) == pc[w] \in {"converged", "time_min", "time_avg"} \/ AfterTiming(w)

\* ---------------------------------------------------------------- C1
\* C1 (as claimed): strip mode, at least two workers, synchronous sends: no
\* reachable state has two neighbouring workers both inside a send to each other.
C1_NoMutualSend ==
    (variant = "strip" /\ NPROC >= 2 /\ sendMode = "sync") =>
        \A a \in Procs : \A b \in Procs :
            ~(InSyncSendTo(a, b) /\ InSyncSendTo(b, a))

\* ---------------------------------------------------------------- C2
\* how far worker w is in its program: sweeps done, then the position inside the
\* pass (operations of the exchange done, reduction), then the calls after the loop
Position(w) ==
    IF pc[w] = "start" THEN 0
    ELSE IF pc[w] = "rejecting" THEN 1
    ELSE IF pc[w] = "rejected" THEN 2
    ELSE IF pc[w] = "exchange" THEN 100 * iter_count[w] + opi[w]
    ELSE IF pc[w] = "allreduce" THEN 100 * iter_count[w] + 10
    ELSE IF pc[w] = "reduce_wait" THEN 100 * iter_count[w] + 11
    ELSE IF pc[w] \in {"sweep", "converged"} THEN 100 * iter_count[w] + 12
    ELSE IF pc[w] \in {"time_min", "time_avg", "report"}
        THEN 100 * iter_count[w] + 12 + time_calls(w)
    ELSE 100 * iter_count[w] + 20 + 20 * barrierIn[w]
            + (IF pc[w] = "barrier_wait" THEN 0
               ELSE IF pc[w] = "collect" THEN 1 + (Len(recv_matrix) \div nb_subdata)
               ELSE IF pc[w] = "assemble" THEN 11
               ELSE IF pc[w] = "barrier" THEN 12
               ELSE IF pc[w] = "finalize" THEN 13
               ELSE 14)

Progress == SumTo([w \in Procs |-> Position(w)], NPROC - 1)

\* in every state in which some worker is inside the exchange, a worker that is
\* inside the exchange can step
NoExchangeDeadlock ==
    (variant = "block" /\ sendMode = "sync" /\ \E w \in Procs : pc[w] = "exchange")
        => \E v \in Procs : pc[v] = "exchange" /\ Runnable(v)

\* C2: block mode, synchronous sends, any accepted worker count: the halo exchange
\* never deadlocks and every worker completes its row phase and its column phase.
\* Stated for update_matrix called on every worker: (1) in every reachable state
\* in which some worker is inside the exchange (row or column phase), a worker
\* inside the exchange can take a step, and (2) every step strictly increases
\* Progress, which is bounded, so the steps end, and by (1) they end with every
\* worker out of the exchange.
C2_BlockExchangeCompletes ==
    /\ []NoExchangeDeadlock
    /\ [][(variant = "block" /\ sendMode = "sync") => Progress' > Progress]_vars

\* a worker of nine has finished the exchange while a second one is in its column
\* phase and a third one still in its row phase
C2_Witness ==
    /\ variant = "block" /\ sendMode = "sync" /\ NPROC = 9
    /\ \E a \in Procs : \E b \in Procs : \E c \in Procs :
        /\ pc[a] = "sweep" /\ ExchangeDone(a)
        /\ pc[b] = "exchange" /\ opi[b] > NbRowOps(b)
        /\ pc[c] = "exchange" /\ opi[c] <= NbRowOps(c)

\* ---------------------------------------------------------------- C3
\* C3: once a worker has completed the row phase of the exchange that follows
\* sweep k, its top ghost row is the last interior row its up neighbour committed
\* in sweep k and its bottom ghost row is the first interior row its down
\* neighbour committed in sweep k (k = 0: the initial tiles).
C3_GhostRows ==
    \A w \in Procs :
        RowPhaseDone(w) =>
            LET k == iter_count[w]
            IN  /\ HasUp(w) =>
                    /\ Len(committed[UpOf(w)]) >= k + 1
                    /\ \A j \in RowCols :
                        Cell(local_tab[w], 0, j)
                            = Cell(committed[UpOf(w)][k + 1], Nlocal_rows - 2, j)
                /\ HasDown(w) =>
                    /\ Len(committed[DownOf(w)]) >= k + 1
                    /\ \A j \in RowCols :
                        Cell(local_tab[w], Nlocal_rows - 1, j)
                            = Cell(committed[DownOf(w)][k + 1], 1, j)

\* a worker with both neighbours and two interior rows has completed the row
\* phase after sweep 2, and the rows it received differ from one another
C3_Witness ==
    \E w \in Procs :
        /\ RowPhaseDone(w) /\ iter_count[w] = 2
        /\ Nlocal_rows = 4
        /\ HasUp(w) \/ HasDown(w)
        /\ \E v \in Procs : \E j \in RowCols :
            Cell(committed[v][3], 1, j) # Cell(committed[v][3], 2, j)

\* ---------------------------------------------------------------- C4
\* C4: block mode: once a worker has completed the column phase of the exchange
\* that follows sweep k, its left ghost column (rows 1..localRows) is the last
\* interior column its left neighbour committed in sweep k and its right ghost
\* column is the first interior column its right neighbour committed in sweep k.
C4_GhostCols ==
    \A w \in Procs :
        (variant = "block" /\ ExchangeDone(w)) =>
            LET k == iter_count[w]
            IN  /\ HasLeft(w) =>
                    /\ Len(committed[w - 1]) >= k + 1
                    /\ \A i \in 1 .. (Nlocal_rows - 2) :
                        Cell(local_tab[w], i, 0)
                            = Cell(committed[w - 1][k + 1], i, Nlocal_cols - 2)
                /\ HasRight(w) =>
                    /\ Len(committed[w + 1]) >= k + 1
                    /\ \A i \in 1 .. (Nlocal_rows - 2) :
                        Cell(local_tab[w], i, Nlocal_cols - 1)
                            = Cell(committed[w + 1][k + 1], i, 1)

\* a worker with a left neighbour and two interior columns has completed the
\* exchange after sweep 2, and the neighbour's two interior columns differ
C4_Witness ==
    \E w \in Procs :
        /\ variant = "block" /\ ExchangeDone(w) /\ iter_count[w] = 2
        /\ Nlocal_cols = 4 /\ HasLeft(w)
        /\ \E i \in 1 .. (Nlocal_rows - 2) :
            Cell(committed[w - 1][3], i, 1) # Cell(committed[w - 1][3], i, 2)

\* ---------------------------------------------------------------- C5
\* a ghost cell of the tile of w on a side where w has no neighbour
OnDomainEdge(w, x) ==
    LET i == x \div Nlocal_cols
        j == x % Nlocal_cols
    IN  \/ i = 0 /\ ~HasUp(w)
        \/ i = Nlocal_rows - 1 /\ ~HasDown(w)
        \/ variant = "block" /\ j = 0 /\ ~HasLeft(w)
        \/ variant = "block" /\ j = Nlocal_cols - 1 /\ ~HasRight(w)

\* C5: in every reachable state every ghost cell on a domain-boundary side of a
\* tile holds the boundary constant -1.
C5_DomainEdgeFixed ==
    \A w \in Procs :
        Started(w) =>
            \A x \in DOMAIN local_tab[w] :
                OnDomainEdge(w, x) => local_tab[w][x] = BOUNDARY

\* a worker with a neighbour on one side and none on the other has received
\* halo data after its second sweep
C5_Witness ==
    \E w \in Procs :
        /\ ExchangeDone(w) /\ iter_count[w] = 2
        /\ HasDown(w) /\ ~HasUp(w)
        /\ \E j \in RowCols : Cell(local_tab[w], Nlocal_rows - 1, j) # BOUNDARY

\* ---------------------------------------------------------------- C6
\* v has returned from the MPI_Allreduce of iteration k
ReductionReturned(v, k) ==
    \/ iter_count[v] > k
    \/ iter_count[v] = k /\ pc[v] = "sweep"
    \/ iter_count[v] = k /\ PastLoop(v)

\* v has completed the exchange of iteration k and entered its MPI_Allreduce
ReductionEntered(v, k) == Len(reduceIn[v]) >= k

\* C6 (as claimed): a worker that has started the sweep of iteration k+1 (k >= 1)
\* does so only after every worker has completed the exchange and the reduction
\* of iteration k; iteration counters differ by at most one.
C6_Original ==
    \A w \in Procs : \A v \in Procs :
        /\ iter_count[w] >= 2 => ReductionReturned(v, iter_count[w] - 1)
        /\ iter_count[w] - iter_count[v] <= 1

\* C6 (amended): a worker that has started the sweep of iteration k+1 (k >= 1)
\* does so only after every worker has completed the exchange of iteration k and
\* has entered (contributed to) the reduction of iteration k; iteration counters
\* differ by at most one.
C6_LockStep ==
    \A w \in Procs : \A v \in Procs :
        /\ iter_count[w] >= 2 =>
            /\ iter_count[v] >= iter_count[w] - 1
            /\ ReductionEntered(v, iter_count[w] - 1)
            /\ (iter_count[v] = iter_count[w] - 1 => pc[v] \in {"reduce_wait", "sweep"})
        /\ iter_count[w] - iter_count[v] <= 1

\* a worker has swept for iteration 3 while a peer is still inside the reduction
\* of iteration 2
C6_Witness ==
    \E w \in Procs : \E v \in Procs :
        /\ iter_count[w] = 3 /\ iter_count[v] = 2 /\ pc[v] = "reduce_wait"

\* ---------------------------------------------------------------- C7
\* w holds the result of the reduction of iteration iter_count[w]
HasGlobalSum(w) ==
    /\ iter_count[w] >= 1
    /\ pc[w] = "sweep" \/ PastLoop(w)

\* C7: the workers that hold the result of the same iteration hold the same
\* globalErrorSum, which is the sum of all workers' localErrorSum of that
\* iteration; all take the same decision: no worker has left the loop while
\* another one continues, and all leave at the same iteration number.
C7_SameDecision ==
    \A w \in Procs :
        HasGlobalSum(w) =>
            /\ \A v \in Procs :
                (HasGlobalSum(v) /\ iter_count[v] = iter_count[w]) =>
                    /\ global_error_sum[v] = global_error_sum[w]
                    /\ pc[v] = "sweep" <=> pc[w] = "sweep"
                    /\ PastLoop(v) <=> PastLoop(w)
            /\ (\A v \in Procs : iter_count[v] = iter_count[w]) =>
                global_error_sum[w]
                    = double_sum([v \in Procs |-> local_error_sum[v]], NPROC - 1)
            /\ PastLoop(w) =>
                \A v \in Procs :
                    /\ iter_count[v] <= iter_count[w]
                    /\ PastLoop(v) => iter_count[v] = iter_count[w]

\* four workers have all left the loop, converged, after several iterations
C7_Witness ==
    /\ NPROC = 4
    /\ \A w \in Procs : PastLoop(w) /\ iter_count[w] > 2
    /\ \A w \in Procs : ~double_leq(global_error_sum[w], local_error_sum[w])

\* ---------------------------------------------------------------- C8
\* C8: block mode: cell (i, j) of the assembled grid is interior cell
\* (i mod b, j mod b) of the tile of worker (i div b) * c + (j div b), with
\* b = N / c and c = sqrt(workerCount).
C8_BlockAssembly ==
    (variant = "block" /\ final_matrix # <<>>) =>
        /\ Len(final_matrix) = N * N
        /\ \A i \in 0 .. (N - 1) : \A j \in 0 .. (N - 1) :
            At(final_matrix, j + i * N)
                = Cell(local_tab[(i \div NBLOCK) * NBCUTS + (j \div NBLOCK)],
                       (i % NBLOCK) + 1, (j % NBLOCK) + 1)

\* the converged tiles of four workers, 2 x 2 interior cells each, have been
\* assembled; the tiles differ from worker to worker and from cell to cell
C8_Witness ==
    /\ variant = "block" /\ NPROC = 4 /\ N = 4 /\ final_matrix # <<>>
    /\ Cell(local_tab[3], 1, 1) # Cell(local_tab[3], 1, 2)
    /\ Cell(local_tab[3], 1, 1) # Cell(local_tab[3], 2, 1)
    /\ mysubarray(local_tab[1]) # mysubarray(local_tab[2])

\* ---------------------------------------------------------------- C9
\* C9: strip mode: row i of the assembled grid is interior row (i mod r) of the
\* tile of worker i div r, with r = N / workerCount; no ghost row appears.
C9_StripAssembly ==
    (variant = "strip" /\ final_matrix # <<>>) =>
        /\ Len(final_matrix) = N * N
        /\ \A i \in 0 .. (N - 1) : \A j \in 0 .. (N - 1) :
            At(final_matrix, j + i * N)
                = Cell(local_tab[i \div (N \div NPROC)], (i % (N \div NPROC)) + 1, j)

\* the converged strips of two workers, two rows each, have been assembled; the
\* rows of a strip differ from each other and from the ghost row above them
C9_Witness ==
    /\ variant = "strip" /\ NPROC = 2 /\ N = 4 /\ final_matrix # <<>>
    /\ Cell(local_tab[1], 1, 0) # Cell(local_tab[1], 2, 0)
    /\ Cell(local_tab[1], 0, 0) # Cell(local_tab[1], 1, 0)
    /\ gather_sendbuf(local_tab[0]) # gather_sendbuf(local_tab[1])

\* ---------------------------------------------------------------- C10
\* C10: in both variants line t (0-based) of the result file is row N-1-t of the
\* assembled grid, each value printed with "%f", columns in the same order.
C10_ReversedRows ==
    file # <<>> =>
        /\ Len(file) = N
        /\ \A t \in 0 .. (N - 1) :
            /\ Len(file[t + 1]) = N
            /\ \A j \in 0 .. (N - 1) :
                file[t + 1][j + 1] = fprintf_f(At(final_matrix, j + (N - 1 - t) * N))

\* a file whose first and last lines differ has been written from a block grid
C10_Witness ==
    /\ file # <<>> /\ N >= 4 /\ variant = "block"
    /\ file[1] # file[N]

\* ---------------------------------------------------------------- C11
\* the cells of final_matrix that STEP 3 assigns (0-based offsets)
CellsWritten ==
    LET writes == block_writes(0, 0, 0, 0)
    IN  {writes[k].idx : k \in 1 .. Len(writes)}

\* the cells of ordered_matrix that STEP 3 reads (0-based offsets)
CellsRead ==
    LET writes == block_writes(0, 0, 0, 0)
    IN  {writes[k].off : k \in 1 .. Len(writes)}

\* C11: the assembled grid has N rows of N values and every cell is written
\* exactly once from a received interior cell.  Block: STEP 1 receives N*N values,
\* STEP 2 copies N*N of them, STEP 3 makes N*N assignments that write N*N different
\* cells of final_matrix (so each once) from N*N different cells of
\* ordered_matrix, and no cell of either buffer is left as allocated.  Strip: the
\* gather receives N*N values, N*(N/NPROC) from each rank, which fill
\* final_matrix.  The file has N lines of N values.
C11_ShapeExactlyOnce ==
    /\ (variant = "block" /\ final_matrix # <<>>) =>
        /\ Len(recv_matrix) = N * N
        /\ Len(ordered_matrix) = N * N
        /\ Len(final_matrix) = N * N
        /\ Len(block_writes(0, 0, 0, 0)) = N * N
        /\ CellsWritten = 0 .. (N * N - 1)
        /\ CellsRead = 0 .. (N * N - 1)
        /\ unwritten_cells = {}
        /\ unassigned_cells = {}
    /\ (variant = "strip" /\ final_matrix # <<>>) =>
        /\ Len(final_matrix) = N * N
        /\ ungathered_cells = {}
        /\ \A v \in Procs :
            \A k \in 1 .. Len(gatherIn[v]) : Len(gatherIn[v][k]) = N * (N \div NPROC)
    /\ file # <<>> =>
        /\ Len(file) = N
        /\ \A t \in 1 .. N : Len(file[t]) = N

\* a grid of four blocks has been assembled and written, STEP 2 having moved
\* blocks and STEP 3 having moved cells
C11_Witness ==
    /\ variant = "block" /\ NPROC = 4 /\ N = 4
    /\ file # <<>> /\ ordered_matrix # recv_matrix /\ final_matrix # ordered_matrix

\* ---------------------------------------------------------------- C12
\* the largest integer whose square is an int
MaxRoot == 46340

\* legality by the rule of the design: strip: N divisible by workerCount; block:
\* workerCount a perfect square whose root divides N
LegalByRule ==
    IF variant = "strip" THEN N % NPROC = 0
    ELSE \E c \in 1 .. (IF NPROC < MaxRoot THEN NPROC ELSE MaxRoot) :
            c * c = NPROC /\ N % c = 0

\* worker w has passed the configuration checks one way or the other
Decided(w) == pc[w] # "start"

\* worker w has done nothing but decide: no tile, no message, no sweep, no reduction
Untouched(w) ==
    /\ local_tab[w] = <<>> /\ committed[w] = <<>>
    /\ nsent[w] = 0 /\ opi[w] = 1 /\ iter_count[w] = 0
    /\ reduceIn[w] = <<>> /\ gatherIn[w] = <<>> /\ barrierIn[w] = 0
    /\ \A m \in chan : m.src # w

\* C12 for the process counts of Runs: a worker rejects the configuration exactly
\* when it is illegal by the rule; a rejecting worker has terminated before the initial halo exchange and before
\* any sweep, and in a rejected run no grid is assembled and no file is written.
C12_RejectIffIllegal ==
    /\ \A w \in Procs :
        /\ Decided(w) => (Rejecting(w) <=> ~LegalByRule)
        /\ Rejecting(w) => Untouched(w)
    /\ ~LegalByRule =>
        /\ chan = {}
        /\ recv_matrix = <<>> /\ ordered_matrix = <<>>
        /\ final_matrix = <<>> /\ file = <<>>

\* C12: a configuration is rejected exactly when it is illegal by the rule, and
\* the rejecting worker has done nothing else; stated for rank root_id, the rank
\* that SpecMany follows. is_perfect_square compares the float nearest to the
\* root with its integer part, so that it accepts block / NPROC = 2^24 + 1,
\* which is no perfect square, and N = 4096 then passes the second check.
C12_RootRejectsIffIllegal ==
    Decided(root_id) =>
        /\ Rejecting(root_id) <=> ~LegalByRule
        /\ Rejecting(root_id) => Untouched(root_id)

\* four workers in block mode have all rejected N = 3 (a perfect square that does
\* not divide N)
C12_Witness ==
    /\ variant = "block" /\ NPROC = 4 /\ N = 3
    /\ \A w \in Procs : pc[w] = "rejected"

\* ---------------------------------------------------------------- C13
\* C13: all workers of a run reach the same verdict: in no state has one worker
\* terminated with a configuration error while another one has been accepted
\* (and so enters the halo exchange or the reduction and waits for the first).
C13_SameVerdict ==
    \A w \in Procs : \A v \in Procs :
        (Decided(w) /\ Decided(v)) => (Rejecting(w) <=> Rejecting(v))

\* two strip workers have both rejected N = 3
C13_Witness ==
    /\ variant = "strip" /\ NPROC = 2 /\ N = 3
    /\ pc[0] = "rejected" /\ pc[1] = "rejected"

\* ---------------------------------------------------------------- C14
\* cell (i, j) of the assembled grid lies on its outer edge
OnGridEdge(i, j) == i = 0 \/ i = N - 1 \/ j = 0 \/ j = N - 1

\* the worker whose tile holds cell (i, j) of the grid, and the cell's place in it
OwnerOf(i, j) ==
    IF variant = "strip" THEN i \div (N \div NPROC)
    ELSE (i \div NBLOCK) * NBCUTS + (j \div NBLOCK)

OwnCell(i, j) ==
    IF variant = "strip"
    THEN Cell(local_tab[OwnerOf(i, j)], (i % (N \div NPROC)) + 1, j)
    ELSE Cell(local_tab[OwnerOf(i, j)], (i % NBLOCK) + 1, (j % NBLOCK) + 1)

\* C14 (as claimed): in the final assembled grid every cell of the first row, last
\* row, first column and last column equals the boundary constant -1.
C14_Original ==
    final_matrix # <<>> =>
        \A i \in 0 .. (N - 1) : \A j \in 0 .. (N - 1) :
            OnGridEdge(i, j) => At(final_matrix, j + i * N) = BOUNDARY

\* C14 (amended): the boundary constant -1 lives in the ghost ring around the
\* N x N grid: when the grid is assembled, after any number of iterations, every
\* ghost cell on a domain-boundary side of every tile equals -1; the assembled
\* grid holds interior cells only, and each cell of its outer edge is the value
\* its owner computed for that interior cell (not the boundary constant).
C14_BoundaryInGhostRing ==
    final_matrix # <<>> =>
        /\ \A w \in Procs : \A x \in DOMAIN local_tab[w] :
            OnDomainEdge(w, x) => local_tab[w][x] = BOUNDARY
        /\ Len(final_matrix) = N * N
        /\ \A i \in 0 .. (N - 1) : \A j \in 0 .. (N - 1) :
            OnGridEdge(i, j) => At(final_matrix, j + i * N) = OwnCell(i, j)

\* a grid has been assembled after a converged run of four block workers, and a
\* cell of its outer edge differs from the boundary constant
C14_Witness ==
    /\ variant = "block" /\ NPROC = 4 /\ iter_count[0] > 2
    /\ final_matrix # <<>>
    /\ At(final_matrix, 0) # BOUNDARY

\* ---------------------------------------------------------------- C15
\* worker w is inside the part of the program from the first update_matrix to the
\* end of the loop of laplace
InLoop(w) == pc[w] \in {"exchange", "sweep", "allreduce", "reduce_wait"}

\* C15: with one worker, in either variant, update_matrix performs no send and no
\* receive: the worker is never inside an exchange call, no message exists while
\* it is in the loop, its ghost cells keep the values of initialisation, and it
\* never waits for a peer (its MPI_Allreduce can return at once).
C15_SingleWorkerNoComm ==
    NPROC = 1 =>
        \A w \in Procs :
            /\ pc[w] # "exchange"
            /\ Started(w) =>
                /\ update_matrix(w) = <<>>
                /\ \A x \in DOMAIN local_tab[w] :
                    ~IsInterior(x) => local_tab[w][x] = initialize_local_matrix(w)[x]
            /\ InLoop(w) => (nsent[w] = 0 /\ chan = {} /\ Runnable(w))

\* a single block worker has swept three times and is about to enter the reduction
C15_Witness ==
    /\ NPROC = 1 /\ variant = "block" /\ N = 2
    /\ iter_count[0] = 3 /\ pc[0] = "allreduce"
    /\ local_tab[0] # initialize_local_matrix(0)

\* ---------------------------------------------------------------- C16
\* worker w has left on allocation failure of new_tab
Aborted(w) == pc[w] = "aborted"

\* worker w has left on an allocation failure
Exited(w) == pc[w] \in ExitPositions

\* C16: runs with at least two workers in which a worker has left on allocation
\* failure of new_tab: (1) no other worker is ever past the loop (Converged), none
\* gets beyond the reduction of iteration 1, no grid is assembled and no file is
\* written; (2) whenever no worker can step, every remaining worker (one that has
\* not itself left on an allocation failure) is blocked in a halo send/receive or
\* in the reduction; (3) every step strictly increases the bounded measure
\* Progress, so the run does come to such a stop and stays there.
C16_PeersBlockedForever ==
    /\ []((NPROC >= 2 /\ \E w \in Procs : Aborted(w)) =>
            /\ \A v \in Procs :
                /\ ~PastLoop(v)
                /\ iter_count[v] <= 1
                /\ pc[v] = "sweep" => iter_count[v] = 0
                /\ global_error_sum[v] = double_zero
            /\ final_matrix = <<>> /\ file = <<>>
            /\ (~(\E v \in Procs : Runnable(v))) =>
                    \A v \in Procs :
                        ~Exited(v) => pc[v] \in {"exchange", "reduce_wait"})
    /\ [][(NPROC >= 2 /\ \E w \in Procs : Aborted(w)) => Progress' > Progress]_vars

\* worker 0 of three strip workers has left; worker 1 is blocked in a receive of
\* the exchange and worker 2 in the reduction, and nothing can step
C16_Witness ==
    /\ variant = "strip" /\ NPROC = 3
    /\ Aborted(0)
    /\ pc[1] = "exchange" /\ pc[2] = "reduce_wait"
    /\ ~(\E v \in Procs : Runnable(v))

\* ---------------------------------------------------------------- C20
\* the neighbour of worker k in direction dir by the topology rule, NoWorker if
\* the rule gives none
NoWorker == 0 - 1

RuleNeighbour(k, dir) ==
    IF variant = "strip"
    THEN IF dir = "up" THEN (IF k - 1 >= 0 THEN k - 1 ELSE NoWorker)
         ELSE IF dir = "down" THEN (IF k + 1 <= NPROC - 1 THEN k + 1 ELSE NoWorker)
         ELSE NoWorker
    ELSE IF dir = "up" THEN (IF k \div NBCUTS # 0 THEN k - NBCUTS ELSE NoWorker)
         ELSE IF dir = "down"
              THEN (IF k \div NBCUTS # NBCUTS - 1 THEN k + NBCUTS ELSE NoWorker)
         ELSE IF dir = "left" THEN (IF k % NBCUTS # 0 THEN k - 1 ELSE NoWorker)
         ELSE (IF k % NBCUTS # NBCUTS - 1 THEN k + 1 ELSE NoWorker)

Directions == {"up", "down", "left", "right"}

Opposite(dir) ==
    IF dir = "up" THEN "down"
    ELSE IF dir = "down" THEN "up"
    ELSE IF dir = "left" THEN "right"
    ELSE "left"

\* the direction in which an operation of the exchange communicates: tags 1 and 2
\* are the rows sent up and down, tags 3 and 4 the columns sent right and left
DirectionOf(op) ==
    IF op.tag = 1 THEN (IF op.kind = "send" THEN "up" ELSE "down")
    ELSE IF op.tag = 2 THEN (IF op.kind = "send" THEN "down" ELSE "up")
    ELSE IF op.tag = 3 THEN (IF op.kind = "send" THEN "right" ELSE "left")
    ELSE (IF op.kind = "send" THEN "left" ELSE "right")

\* C20: in every accepted configuration every send and every receive of the halo
\* exchange of worker k addresses a worker j with 0 <= j < workerCount that is the
\* neighbour of k, by the topology rule, in the direction of the operation (and
\* every message in flight during the loop goes from a worker to a neighbour);
\* the neighbour relation is symmetric.
C20_NeighboursOnly ==
    /\ \A k \in Procs :
        Started(k) =>
            LET ops == update_matrix(k)
            IN  /\ \A n \in 1 .. Len(ops) :
                    /\ ops[n].peer \in Procs
                    /\ ops[n].peer = RuleNeighbour(k, DirectionOf(ops[n]))
                /\ \A dir \in Directions :
                    LET j == RuleNeighbour(k, dir)
                    IN  j # NoWorker =>
                            /\ j \in Procs
                            /\ RuleNeighbour(j, Opposite(dir)) = k
                            /\ \E n \in 1 .. Len(ops) :
                                /\ ops[n].kind = "send"
                                /\ ops[n].peer = j
                                /\ DirectionOf(ops[n]) = dir
    /\ \A m \in chan :
        InLoop(m.src) => \E dir \in Directions : RuleNeighbour(m.src, dir) = m.dst

\* the middle worker of nine has a neighbour on every side, has received from
\* the four and has completed the exchange
C20_Witness ==
    /\ variant = "block" /\ NPROC = 9
    /\ \A dir \in Directions : RuleNeighbour(4, dir) # NoWorker
    /\ pc[4] = "sweep"
    /\ local_tab[4] # initialize_local_matrix(4)

\* ------------------------------------------------- sequential reference
\* the sequential reference: the whole grid of N x N cells kept in one buffer of
\* offsets 0 .. N*N-1 (a sequence, read with At)
\* the rank that owns cell x of the grid under decomposition v
SeedOwner(v, x) ==
    IF v = "strip" THEN (x \div N) \div (N \div NPROC)
    ELSE ((x \div N) \div NBLOCK) * NBCUTS + ((x % N) \div NBLOCK)

\* the first n cells of the grid seeded with the owners' ranks
RECURSIVE SeedGrid(_, _)
SeedGrid(v, n) ==
    IF n = 0 THEN <<>> ELSE Append(SeedGrid(v, n - 1), float_of_int(SeedOwner(v, n - 1)))

\* value of cell (i, j) of grid g, the boundary constant outside the domain
GridAt(g, i, j) ==
    IF i < 0 \/ i > N - 1 \/ j < 0 \/ j > N - 1 THEN BOUNDARY ELSE At(g, j + i * N)

\* the Jacobi average of the four neighbours of cell x in grid g
GridAverage(g, x) ==
    Quarter(float_add(float_add(float_add(GridAt(g, (x \div N) + 1, x % N),
                                          GridAt(g, (x \div N) - 1, x % N)),
                                GridAt(g, x \div N, (x % N) - 1)),
                      GridAt(g, x \div N, (x % N) + 1)))

\* the first n cells of the grid after one Jacobi sweep over grid g
RECURSIVE GridSweep(_, _)
GridSweep(g, n) ==
    IF n = 0 THEN <<>> ELSE Append(GridSweep(g, n - 1), GridAverage(g, n - 1))

\* sum over the first n cells of the squared changes from grid g to grid h
RECURSIVE GridError(_, _, _)
GridError(g, h, n) ==
    IF n = 0 THEN double_zero
    ELSE double_add(GridError(g, h, n - 1), squared_change(At(h, n - 1), At(g, n - 1)))

\* ---------------------------------------------------------------- C18
\* every worker has contributed to the reduction of iteration k
ReductionComplete(k) == \A v \in Procs : Len(reduceIn[v]) >= k

\* C18: globalErrorSum (hence globalError, its square root) of iteration k+1 does
\* not exceed that of iteration k, for every k >= 1 whose two reductions are
\* complete; the sum a worker holds does not exceed the sum of the iteration
\* before.
C18_ErrorNeverGrows ==
    /\ \A k \in 1 .. Len(reduceIn[root_id]) :
        ReductionComplete(k + 1) => double_leq(reduce_sum(k + 1), reduce_sum(k))
    /\ \A w \in Procs :
        (HasGlobalSum(w) /\ iter_count[w] >= 2) =>
            double_leq(global_error_sum[w], reduce_sum(iter_count[w] - 1))

\* four workers have left the loop after more than twenty sweeps and the error
\* sum of the last sweep is strictly below that of the sweep before
C18_Witness ==
    /\ NPROC = 4 /\ variant = "strip"
    /\ \A w \in Procs : pc[w] = "converged" /\ iter_count[w] > 20
    /\ ~double_leq(reduce_sum(iter_count[0] - 1), global_error_sum[0])

\* ---------------------------------------------------------------- C19
\* value of the neighbour at row i, column j of tile tab of worker w: the boundary
\* constant when the position lies outside the global domain
NeighbourValue(w, tab, i, j) ==
    IF variant = "strip" /\ (j < 0 \/ j > N - 1) THEN BOUNDARY
    ELSE IF OnDomainEdge(w, j + i * Nlocal_cols) THEN BOUNDARY
    ELSE Cell(tab, i, j)

InteriorCell(x) ==
    /\ x \div Nlocal_cols \in 1 .. (Nlocal_rows - 2)
    /\ x % Nlocal_cols \in RowCols

\* worker w performs a sweep in this step
SweepStep(w) == iter_count'[w] = iter_count[w] + 1

\* C19: in every sweep of every worker, the committed new value of each interior
\* cell is a quarter of the sum of its down, up, left and right neighbours as
\* they were in the tile before the sweep (float additions in that order), a
\* neighbour outside the global domain counting as -1; the other cells keep
\* their value; localErrorSum is the double sum over the interior cells of
\* the float (new - old)^2.
C19_SweepIsJacobi ==
    [][\A w \in Procs :
        SweepStep(w) =>
            /\ \A x \in 0 .. (TileSize - 1) :
                LET i == x \div Nlocal_cols
                    j == x % Nlocal_cols
                IN  IF InteriorCell(x)
                    THEN local_tab'[w][x]
                            = Quarter(float_add(
                                  float_add(
                                      float_add(NeighbourValue(w, local_tab[w], i + 1, j),
                                                NeighbourValue(w, local_tab[w], i - 1, j)),
                                      NeighbourValue(w, local_tab[w], i, j - 1)),
                                  NeighbourValue(w, local_tab[w], i, j + 1)))
                    ELSE local_tab'[w][x] = local_tab[w][x]
            /\ local_error_sum'[w]
                = double_sum([x \in 0 .. (TileSize - 1) |->
                               IF InteriorCell(x)
                               THEN squared_change(local_tab'[w][x], local_tab[w][x])
                               ELSE double_zero],
                           TileSize - 1)]_vars

\* the middle worker of three strips has done its second sweep: its cells moved
\* and its neighbours on both sides had moved before
C19_Witness ==
    /\ variant = "strip" /\ NPROC = 3
    /\ iter_count[1] = 2 /\ pc[1] = "allreduce"
    /\ local_error_sum[1] # double_zero
    /\ Len(committed[1]) = 3
    /\ committed[1][3] # committed[1][2]

\* ---------------------------------------------------------------- C21
\* the offsets of the tile that operation op transfers
OpCells(op) == {op.start + (k - 1) * op.stride : k \in 1 .. op.count}

\* worker w returns from a receive in this step
RecvStep(w) ==
    /\ pc[w] = "exchange"
    /\ CurOp(w).kind = "recv"
    /\ opi'[w] = opi[w] + 1

\* the data a receive of w obtains in this step: that of a buffered message taken
\* from the channel, or what the peer inside its synchronous send reads from its tile
Delivered(w, data) ==
    \/ \E m \in chan :
        /\ m \notin chan'
        /\ m.dst = w /\ m.src = CurOp(w).peer /\ m.tag = CurOp(w).tag
        /\ m.data = data
    \/ /\ sendMode = "sync"
       /\ pc[CurOp(w).peer] = "exchange"
       /\ CurOp(CurOp(w).peer).kind = "send"
       /\ CurOp(CurOp(w).peer).peer = w
       /\ Payload(local_tab[CurOp(w).peer], CurOp(CurOp(w).peer)) = data

\* C21: in every step, the tile of a started worker w keeps its interior cells
\* unless the step is a sweep of w, and keeps its ghost cells during a sweep of w;
\* outside its own sweeps the tile of w changes only when w returns from a
\* receive, and then only in ghost cells addressed by that receive, which take
\* the data of the halo message delivered to w.
C21_FrameEffects ==
    [][\A w \in Procs :
        Started(w) =>
            /\ DOMAIN local_tab'[w] = DOMAIN local_tab[w]
            /\ \A x \in DOMAIN local_tab[w] :
                local_tab'[w][x] # local_tab[w][x] =>
                    IF SweepStep(w)
                    THEN InteriorCell(x)
                    ELSE /\ ~InteriorCell(x)
                         /\ RecvStep(w)
                         /\ x \in OpCells(CurOp(w))
                         /\ Delivered(w, Payload(local_tab'[w], CurOp(w)))]_vars

\* worker 0 of four blocks has swept once and then received new ghost values
C21_Witness ==
    /\ variant = "block" /\ NPROC = 4
    /\ iter_count[0] = 1 /\ pc[0] = "allreduce"
    /\ Len(committed[0]) = 2
    /\ committed[0][2] # committed[0][1]
    /\ local_tab[0] # committed[0][2]

\* ---------------------------------------------------------------- C22
\* the offsets of the four corner ghost cells of a block tile
Corners ==
    {0, Nlocal_cols - 1, (Nlocal_rows - 1) * Nlocal_cols, TileSize - 1}

\* tile tab with another value in its four corners
Poked(tab) ==
    [x \in DOMAIN tab |-> IF x \in Corners THEN float_add(tab[x], float_of_int(1)) ELSE tab[x]]

\* the corners hold -1, no current send or receive addresses one, and the sweep
\* about to be done does not depend on them
CornersUnused ==
    variant = "block" =>
        \A w \in Procs :
            Started(w) =>
                /\ \A c \in Corners : local_tab[w][c] = BOUNDARY
                /\ pc[w] = "exchange" => OpCells(CurOp(w)) \cap Corners = {}
                /\ pc[w] = "sweep" =>
                    \A x \in DOMAIN local_tab[w] :
                        InteriorCell(x) =>
                            new_cell(Poked(local_tab[w]), x) = new_cell(local_tab[w], x)

\* C22: block mode, every started worker: the four corner ghost cells of its tile
\* hold -1 and no step writes them; the send or receive it is in, of the row
\* phase or of the column phase, addresses no corner; the sweep it is about to
\* do gives every interior cell the same new value whatever the corners hold.
C22_CornersInert ==
    /\ []CornersUnused
    /\ [][variant = "block" =>
            \A w \in Procs :
                Started(w) =>
                    \A c \in Corners : local_tab'[w][c] = local_tab[w][c]]_vars

\* worker 0 of four has swept twice: the two ghost cells next to the corner it
\* shares with its down and right neighbours hold received values, the corner -1
C22_Witness ==
    /\ variant = "block" /\ NPROC = 4 /\ N = 4
    /\ iter_count[0] = 2 /\ pc[0] = "allreduce"
    /\ local_tab[0][Nlocal_cols * Nlocal_rows - 2] # BOUNDARY
    /\ local_tab[0][Nlocal_cols * (Nlocal_rows - 1) - 1] # BOUNDARY
    /\ local_tab[0][Nlocal_cols * Nlocal_rows - 1] = BOUNDARY

\* ---------------------------------------------------------------- C23
\* a message of the halo exchange; the others are the sub-blocks that the block
\* variant sends to rank 0 with the sender's rank as tag
IsHalo(m) == variant = "strip" \/ m.dst # root_id \/ m.tag # m.src

HaloInFlight == {m \in chan : IsHalo(m)}

\* worker w has still to post, in its current exchange, a receive from src with tag
AwaitsFrom(w, src, tag) ==
    /\ pc[w] \in {"start", "exchange"}
    /\ LET ops == update_matrix(w)
       IN  \E n \in opi[w] .. Len(ops) :
            ops[n].kind = "recv" /\ ops[n].peer = src /\ ops[n].tag = tag

\* every halo message in flight is awaited by its addressee in the round it was
\* sent in; the messages of one sender, receiver and tag are in flight in the
\* order of their rounds; once all workers have entered the reduction of
\* iteration k no message of a round up to k is in flight
HaloRoundsMatch ==
    /\ \A m \in HaloInFlight :
        /\ m.dst \in Procs
        /\ \/ iter_count[m.dst] = m.round /\ AwaitsFrom(m.dst, m.src, m.tag)
           \/ /\ iter_count[m.dst] + 1 = m.round
              /\ pc[m.dst] \in {"exchange", "sweep", "reduce_wait"}
        /\ \A m2 \in HaloInFlight :
            (m2 # m /\ m2.src = m.src /\ m2.dst = m.dst /\ m2.tag = m.tag) =>
                /\ m2.round # m.round
                /\ (m2.round < m.round) <=> (m2.sn < m.sn)
        /\ ~ReductionComplete(IF m.round = 0 THEN 1 ELSE m.round)
    /\ (\A w \in Procs : pc[w] = "reduce_wait") => HaloInFlight = {}
    /\ \A s \in Procs : CanRendezvous(s) => iter_count[CurOp(s).peer] = iter_count[s]

\* C23: with delivery in sending order for each sender, receiver and tag, every
\* halo message sent in exchange round r is received in the addressee's round r
\* by a receive for its sender and tag (and a synchronous send meets a receive of
\* the same round); whenever all workers have entered the reduction of an
\* iteration no halo message of that iteration or an earlier one is in flight.
C23_RoundsMatch ==
    /\ []HaloRoundsMatch
    /\ [][\A m \in HaloInFlight :
            m \notin chan' =>
                /\ RecvStep(m.dst)
                /\ m.round = iter_count[m.dst]
                /\ CurOp(m.dst).peer = m.src /\ CurOp(m.dst).tag = m.tag]_vars

\* no barrier separates the initial exchange from that of iteration 1: worker 0 has
\* sent its halo of iteration 1 while its halo of the initial exchange is still
\* in flight to the same neighbour
C23_Witness ==
    \E m \in HaloInFlight : \E m2 \in HaloInFlight :
        /\ m.src = 0 /\ m2.src = 0
        /\ m.dst = m2.dst /\ m.tag = m2.tag
        /\ m.round = 0 /\ m2.round = 1

\* ---------------------------------------------------------------- C24
\* the undivided grid from the seeds of decomposition v and after each of k
\* sequential Jacobi sweeps: element n+1 is the grid after n sweeps
RECURSIVE GridHistory(_, _)
GridHistory(v, k) ==
    IF k = 0 THEN <<SeedGrid(v, N * N)>>
    ELSE LET h == GridHistory(v, k - 1)
         IN  Append(h, GridSweep(h[k], N * N))

\* the cell of the undivided grid that cell (i, j) of the tile of worker w stands
\* for: the tile's interior placed at the worker's position in the topology
GlobalOffset(w, i, j) ==
    IF variant = "strip" THEN j + (w * (N \div NPROC) + (i - 1)) * N
    ELSE ((w % NBCUTS) * NBLOCK + (j - 1))
         + ((w \div NBCUTS) * NBLOCK + (i - 1)) * N

\* the largest number of sweeps any worker has done
SweepsDone == Max({iter_count[w] : w \in Procs})

\* the last of the tiles of worker w is its part of the undivided grid after as
\* many sequential sweeps as tiles precede it
TileIsSequential(w, tiles) ==
    \A k \in {Len(tiles)} \ {0} :
        LET grid == GridHistory(variant, k - 1)[k]
        IN  \A x \in DOMAIN tiles[k] :
                InteriorCell(x) =>
                    tiles[k][x]
                        = At(grid, GlobalOffset(w, x \div Nlocal_cols, x % Nlocal_cols))

\* sum is the sum over the undivided grid of the squared changes of sequential
\* sweep k
SumIsSequential(k, sum) ==
    LET hist == GridHistory(variant, k)
    IN  sum = GridError(hist[k], hist[k + 1], N * N)

\* C24: for every worker and every k >= 0, the interior of the tile as committed
\* by sweep k (the seeded tile for k = 0) is, cell for cell at the worker's
\* position, the undivided grid after k sequential Jacobi sweeps with boundary -1
\* from the same seeds; the globalErrorSum of every complete reduction k is the
\* sum over the undivided grid of the squared changes of sequential sweep k; a
\* tile once committed is not rewritten by a later step.  Stated on the steps:
\* a step that commits a tile commits the sequential one, a step in which a
\* worker returns from the reduction of iteration k gives it the sequential sum
\* of sweep k, and no step removes or changes a tile committed or a
\* contribution made before (none exists in the initial state).
C24_ParallelIsSequential ==
    [][\A w \in Procs :
        /\ Len(committed'[w]) >= Len(committed[w])
        /\ \A k \in 1 .. Len(committed[w]) : committed'[w][k] = committed[w][k]
        /\ Len(reduceIn'[w]) >= Len(reduceIn[w])
        /\ \A k \in 1 .. Len(reduceIn[w]) : reduceIn'[w][k] = reduceIn[w][k]
        /\ committed'[w] # committed[w] => TileIsSequential(w, committed'[w])
        /\ (pc[w] = "reduce_wait" /\ pc'[w] # "reduce_wait") =>
                SumIsSequential(iter_count[w], global_error_sum'[w])]_vars

\* four blocks of 2 x 2 cells have each committed two sweeps and reduced twice
C24_Witness ==
    /\ variant = "block" /\ NPROC = 4 /\ N = 4
    /\ \A w \in Procs : Len(committed[w]) = 3 /\ committed[w][3] # committed[w][2]
    /\ ReductionComplete(2)
    /\ HasGlobalSum(3) /\ iter_count[3] = 2

\* ---------------------------------------------------------------- C25
\* the sub-blocks sent to rank 0 and not yet received
SubBlocksInFlight == chan \ HaloInFlight

\* number of sub-blocks rank 0 has received
NbCollected == Len(recv_matrix) \div nb_subdata

\* worker w has posted its MPI_Isend
HasPosted(w) == AfterTiming(w) /\ pc[w] # "report"

AtShutdown(w) == pc[w] \in {"finalize", "done"}

\* block mode: rank 0 has received the sub-blocks of ranks 0 .. NbCollected-1, one
\* each, in rank order, each the interior of the sender's tile; the sub-block of
\* every other worker that has posted its send is in flight, once; a worker at
\* shutdown finds all NPROC sub-blocks received and none in flight; and while
\* the workers are past the loop and not all done, one of them can step
CollectedOnce ==
    (variant = "block" /\ ConfigLegal) =>
        /\ Len(recv_matrix) = NbCollected * nb_subdata
        /\ NbCollected <= NPROC
        /\ \A i \in 0 .. (NbCollected - 1) :
            /\ HasPosted(i)
            /\ SubSeq(recv_matrix, i * nb_subdata + 1, (i + 1) * nb_subdata)
                = mysubarray(local_tab[i])
        /\ \A m \in SubBlocksInFlight :
            /\ m.dst = root_id /\ m.src \in Procs /\ m.tag = m.src
            /\ m.src >= NbCollected
            /\ HasPosted(m.src)
            /\ m.data = mysubarray(local_tab[m.src])
            /\ \A m2 \in SubBlocksInFlight : m2.src = m.src => m2 = m
        /\ \A w \in Procs :
            /\ (HasPosted(w) /\ w >= NbCollected) =>
                    \E m \in SubBlocksInFlight : m.src = w
            /\ AtShutdown(w) => (NbCollected = NPROC /\ SubBlocksInFlight = {})
        /\ ((\A w \in Procs : PastLoop(w)) /\ (\E w \in Procs : pc[w] # "done"))
                => \E v \in Procs : Runnable(v)

\* C25: block mode after convergence: rank 0 receives exactly one sub-block from
\* each worker, its own included, each carrying the interior of that worker's
\* tile, which no step changes once the worker has left the loop; all these
\* receives are complete before any worker reaches MPI_Finalize; and every
\* worker reaches shutdown: past the loop some worker can always step until all
\* are done, and every step increases the bounded measure Progress.
C25_CollectBeforeShutdown ==
    /\ []CollectedOnce
    /\ [][variant = "block" =>
            /\ \A w \in Procs : PastLoop(w) => local_tab'[w] = local_tab[w]
            /\ (\E w \in Procs : PastLoop(w)) => Progress' > Progress]_vars

\* worker 3 of four is beyond the first barrier, into the next one, while the
\* sub-block it posted before the barrier is still in flight and rank 0 is
\* receiving
C25_Witness ==
    /\ variant = "block" /\ NPROC = 4
    /\ pc[0] = "collect" /\ NbCollected = 1
    /\ pc[3] = "barrier_wait" /\ barrierIn[3] = 2
    /\ \E m \in SubBlocksInFlight : m.src = 3

====
